---- MODULE Spec2Model ----
(***************************************************************************)
(* A model of mautrix-max (a Matrix <-> Max Messenger bridge).             *)
(*                                                                         *)
(* The module holds several specifications, one per subsystem, over        *)
(* disjoint groups of variables:                                           *)
(*   SpecBridge  portals, room materialization, message correlation        *)
(*               (portal.py, user.py _on_max_event, db/portal.py,          *)
(*               db/message.py)                                            *)
(*   SpecMsg     the message paths of SpecBridge from a materialized room  *)
(*   SpecMatrix  the ghost guard of the Matrix handler (matrix.py,         *)
(*               __main__.py is_bridge_ghost)                              *)
(*   SpecUser    one user session: connect, disconnect, login, logout      *)
(*               (user.py, max/bot_client.py, max/user_client.py)          *)
(*   SpecSeq     the outbound seq of one UserMaxClient (max/user_client.py)*)
(*   SpecRelay   SpecMsg with edits; SpecDup: events dispatched twice      *)
(*   SpecPoll    the long-polling loop of BotMaxClient (max/bot_client.py) *)
(*   SpecProv    the provisioning API (web/provisioning.py)                *)
(*   SpecLic     the periodic license check (__main__.py)                  *)
(*   SpecListen  the WebSocket listener of UserMaxClient; SpecOrder and    *)
(*               SpecContain: both loops with their event handlers         *)
(*   SpecReact   the reaction table (db/reaction.py, db/upgrade.py)        *)
(*   SpecReq     requests, futures, disconnect and login setup of one      *)
(*               UserMaxClient (max/user_client.py)                        *)
(*   SpecConn    User.connect in user mode (user.py, max/user_client.py)   *)
(*   SpecStep    concurrent login steps and the QR poll                    *)
(*               (web/provisioning.py, max/user_client.py)                 *)
(*   SpecBody    the body of an incoming message (max/types.py)            *)
(*   SpecPup     Puppet.update_info across restarts (puppet.py)            *)
(*   SpecRoom    create_matrix_room with failing calls (portal.py)         *)
(*   SpecStop    disconnect of a running client and its background tasks   *)
(*               (user.py, max/bot_client.py, max/user_client.py)          *)
(*                                                                         *)
(* Conventions: None is 0 for ids and numbers, "" for names; a Max message *)
(* id 0 is the empty string "" the clients default to; asyncio tasks are   *)
(* processes with a pc, and every await that really suspends is a step     *)
(* boundary.                                                               *)
(***************************************************************************)
EXTENDS Naturals, Integers, Sequences, FiniteSets, TLC

VARIABLES
    \* ---- bridge: Portal class state (portal.py) ----
    portals,         \* heap of Portal objects, identity = index
    by_max_chat_id,  \* Portal.by_max_chat_id: chat -> object (0: absent)
    by_mxid,         \* Portal.by_mxid: room -> object (0: absent)
    \* ---- bridge: database ----
    dbPortal,        \* table portal: chat -> mxid of the row (0: no row)
    dbMessage,       \* table message: sequence of rows
    \* ---- bridge: the homeserver and Max ----
    rooms,           \* rooms created by create_room: room id = index, value = chat
    mxEvents,        \* Matrix events: event id = index
    maxNext,         \* next message id Max assigns
    inbox,           \* per session: Max events received and not yet handled
    \* ---- bridge: tasks ----
    pc, loc,
    sent,            \* history: what send_message returned to handle_matrix_message
    restarts,
    \* ---- Matrix handler ----
    username_template,  \* config bridge.username_template, a string
    tplPrefix,          \* history: the text the operator put before {userid}
    mhPc,               \* "boot", "idle" or "lookup"
    mhEvt,              \* the event in the handler and what became of it
    \* ---- user session (one User object) ----
    bot_token, max_token, max_user_id, connection_mode,
    max_client,      \* User.max_client: index into clients (0: None)
    dbUser,          \* the row of table "user"
    clients,         \* heap of client objects
    upc, uloc,       \* the tasks that call into the session
    completed,       \* history: how the last User.connect call completed
    \* ---- UserMaxClient wire state ----
    seq,             \* UserMaxClient._seq
    pending,         \* keys of UserMaxClient._pending
    wsOpen,          \* _ws is set and not closed
    allocated,       \* history: seqs in the order _next_seq returned them
    wire,            \* frames written to the WebSocket
    \* ---- edits and redelivery (with the bridge variables) ----
    replaces,        \* history: Matrix events with an m.replace relation, and their targets
    edits,           \* history: edit_message calls Max accepted
    editInbox,       \* per session: message_edited events received and not yet handled
    mxEdits,         \* history: Matrix edit events the bridge sent
    redelivered,     \* history: duplicates dispatched again, with the counts at that time
    \* -- BotMaxClient long polling (max/bot_client.py) --
    updates,         \* the updates Max holds for the bot, in order; each is its kind
    marker,          \* BotMaxClient._marker: position of the last update returned (0 = None)
    batch,           \* positions of the updates of the current response still to handle
    dispatched,      \* history: positions handed to on_event, in order
    handling,        \* positions whose on_event call has started and not finished
    bpc,             \* position of _poll_loop
    running,         \* BotMaxClient._running
    got401,          \* history: a request was answered 401
    after401,        \* history: number of requests issued after a 401
    fault,           \* history: the last fault of the loop, with the Retry-After of a 429
    sleepSecs,       \* the seconds of the asyncio.sleep the loop is in, 0 outside
    \* -- ProvisioningAPI (web/provisioning.py) --
    login_sessions,  \* ProvisioningAPI._login_sessions: login_id -> session
    nextLogin,       \* the next fresh login_id (uuid4)
    provUser,        \* the User of the requests: its tokens and whether its client is connected
    opened,          \* history: number of UserMaxClient objects the API opened
    lastReply,       \* history: the last response, with what its request changed
    inflight,        \* the step request suspended in login_bot / login_user
    \* -- MaxBridge._periodic_license_check (__main__.py) --
    now,             \* the event loop's clock, in hours
    lpc,             \* position of the periodic task
    grace_end,       \* the local grace_end
    resolved,        \* the local resolved
    exit_code,       \* the code of sys.exit, NoExit while the bridge runs
    rechecks,        \* history: checks made in the current grace period
    \* -- UserMaxClient._listen_loop (max/user_client.py) --
    wsIn,            \* frames Max sent on the WebSocket that were not received yet
    wsSent,          \* number of frames Max sent
    wsEmitted,       \* number of event frames Max sent: the source order
    wsStarted,       \* history: events handed to on_event, in order
    wsHandling,      \* events whose on_event call has started and not finished
    wpc,             \* position of _listen_loop
    wsAcked,         \* history: events whose ack the client wrote, in order
    wsCur,           \* the event of the frame being handled, 0 for none
    wsFault,         \* history: the last fault of the listener
    \* -- the reaction table (db/reaction.py, db/upgrade.py) --
    dbReaction,      \* the rows of table reaction
    \* -- UserMaxClient requests and their futures (max/user_client.py) --
    rqMode,          \* how the client is used: "fresh", "session" (connect) or "auth" (login flow)
    rqWs,            \* UserMaxClient._ws: "none", "open", "closing" (close() awaited, closed still False), "closed"
    rqRunning,       \* UserMaxClient._running
    rqListen,        \* the listener task: "none", "receive", "cancelled", "ended"
    rqSeq,           \* UserMaxClient._seq
    rqPending,       \* the keys of UserMaxClient._pending
    rqFut,           \* the future created for each seq: its state and value
    rqWire,          \* history: the seqs of the request frames written to the socket, in order
    rqIn,            \* response and error frames Max sent that were not received yet
    cpc,             \* per caller: its position in _send_and_wait
    cseq,            \* per caller: the local seq of its call, 0 outside a call
    cout,            \* per caller: how its last call ended
    dpc,             \* position of disconnect
    apc,             \* position of start_phone_auth / start_qr_auth
    \* -- User.connect in user mode (user.py, max/user_client.py) --
    cnPc,            \* position of User.connect
    cnUser,          \* the User: max_token, max_user_id, and whether max_client is set
    cnRow,           \* the persisted user row: max_token and max_user_id
    cnClient,        \* the UserMaxClient: auth_token, _me, socket, listener, keepalive
    cnLogin,         \* history: the payload of the LOGIN_BY_TOKEN response
    cnSyncTask,      \* the chats the _sync_chats task was created with; NoTask without one
    cnDispatched,    \* history: number of events the client handed to _on_max_event
    cnLate,          \* history: those handed over after connect had failed
    \* -- concurrent POST /v3/login/step requests (web/provisioning.py) --
    stSession,       \* the entry of _login_sessions for the login id: "" (none) or its flow
    stPc,            \* per request: position of v3_login_step
    stLoc,           \* per request: its session local, the clock of poll_qr_auth, what it raised
    stReply,         \* per request: the response
    stLoginCalls,    \* history: number of login_bot / login_user calls for the session
    stRequests,      \* number of requests made
    \* -- decoding of incoming messages (max/user_client.py, max/types.py) --
    bdIn,            \* INCOMING_MESSAGE frames Max sent that were not received yet
    bdHandled,       \* history: each frame received, with the event dispatched for it
    \* -- one Puppet (puppet.py, db/puppet.py) --
    ppCache,         \* Puppet.by_max_user_id for the user id: the Puppet object or NoPuppet
    ppDb,            \* the row of table puppet for the user id, or NoPuppet
    ppPrev,          \* history: the MaxUser of the previous update_info and whether all of it succeeded
    ppCall,          \* history: the last update_info: a repeat, its homeserver calls, its save
    ppCalls,         \* number of update_info calls
    ppRestarts,      \* number of restarts of the bridge
    \* ---- room: create_matrix_room of one Portal with failing calls ----
    rmPc,            \* trigger -> position in create_matrix_room
    rmPortal,        \* the Portal object: mxid (0: None), lock holder
    rmByMxid,        \* rooms registered in Portal.by_mxid for this object
    rmDb,            \* mxid of the persisted portal row (0: none)
    rmRooms,         \* rooms the homeserver has created
    rmStarted,       \* triggers started so far
    \* ---- stop: disconnect of a running client, bot or user mode ----
    dcMode,          \* "none", "bot", "user": the client User.connect built
    dcRunning,       \* _running of the client
    dcWs,            \* the WebSocket: "none", "open", "closing", "closed"
    dcTasks,         \* "loop" (_poll_loop / _listen_loop), "keepalive"
    dcDisc,          \* position of User.disconnect
    dcDispatched,    \* events handed to on_event so far
    dcSent           \* frames and poll requests sent so far

bridgeVars == <<portals, by_max_chat_id, by_mxid, dbPortal, dbMessage, rooms,
                mxEvents, maxNext, inbox, pc, loc, sent, restarts>>

matrixVars == <<username_template, tplPrefix, mhPc, mhEvt>>

userVars == <<bot_token, max_token, max_user_id, connection_mode, max_client,
              dbUser, clients, upc, uloc, completed>>

seqVars == <<seq, pending, wsOpen, allocated, wire>>

relayVars == <<replaces, edits, editInbox, mxEdits, redelivered>>

\* The groups of the later specifications.
pollVars == <<updates, marker, batch, dispatched, handling, bpc, running, got401, after401,
             fault, sleepSecs>>
provVars == <<login_sessions, nextLogin, provUser, opened, lastReply, inflight>>
licVars == <<now, lpc, grace_end, resolved, exit_code, rechecks>>
wsVars == <<wsIn, wsSent, wsEmitted, wsStarted, wsHandling, wpc, wsAcked, wsCur, wsFault>>
reactVars == <<dbReaction>>
reqVars == <<rqMode, rqWs, rqRunning, rqListen, rqSeq, rqPending, rqFut, rqWire, rqIn, cpc, cseq, cout, dpc, apc>>
connVars == <<cnPc, cnUser, cnRow, cnClient, cnLogin, cnSyncTask, cnDispatched, cnLate>>
stepVars == <<stSession, stPc, stLoc, stReply, stLoginCalls, stRequests>>
bodyVars == <<bdIn, bdHandled>>
pupVars == <<ppCache, ppDb, ppPrev, ppCall, ppCalls, ppRestarts>>
roomVars == <<rmPc, rmPortal, rmByMxid, rmDb, rmRooms, rmStarted>>
stopVars == <<dcMode, dcRunning, dcWs, dcTasks, dcDisc, dcDispatched, dcSent>>
extraVars == <<relayVars, pollVars, provVars, licVars, wsVars, reactVars, reqVars, connVars, stepVars, bodyVars, pupVars, roomVars, stopVars>>

notBridge == <<matrixVars, userVars, seqVars, extraVars>>
notMatrix == <<bridgeVars, userVars, seqVars, extraVars>>
notUser == <<bridgeVars, matrixVars, seqVars, extraVars>>
notSeq == <<bridgeVars, matrixVars, userVars, extraVars>>
notRelay == <<matrixVars, userVars, seqVars, pollVars, provVars, licVars, wsVars, reactVars, reqVars, connVars, stepVars, bodyVars, pupVars, roomVars, stopVars>>
notPoll == <<bridgeVars, matrixVars, userVars, seqVars, relayVars, provVars, licVars, wsVars, reactVars, reqVars, connVars, stepVars, bodyVars, pupVars, roomVars, stopVars>>
notProv == <<bridgeVars, matrixVars, userVars, seqVars, relayVars, pollVars, licVars, wsVars, reactVars, reqVars, connVars, stepVars, bodyVars, pupVars, roomVars, stopVars>>
notLic == <<bridgeVars, matrixVars, userVars, seqVars, relayVars, pollVars, provVars, wsVars, reactVars, reqVars, connVars, stepVars, bodyVars, pupVars, roomVars, stopVars>>
notWs == <<bridgeVars, matrixVars, userVars, seqVars, relayVars, pollVars, provVars, licVars, reactVars, reqVars, connVars, stepVars, bodyVars, pupVars, roomVars, stopVars>>
notReact == <<bridgeVars, matrixVars, userVars, seqVars, relayVars, pollVars, provVars, licVars, wsVars, reqVars, connVars, stepVars, bodyVars, pupVars, roomVars, stopVars>>

notReq == <<bridgeVars, matrixVars, userVars, seqVars, relayVars, pollVars, provVars, licVars, wsVars, reactVars, connVars, stepVars, bodyVars, pupVars, roomVars, stopVars>>

notConn == <<bridgeVars, matrixVars, userVars, seqVars, relayVars, pollVars, provVars, licVars, wsVars, reactVars, reqVars, stepVars, bodyVars, pupVars, roomVars, stopVars>>

notStep == <<bridgeVars, matrixVars, userVars, seqVars, relayVars, pollVars, provVars, licVars, wsVars, reactVars, reqVars, connVars, bodyVars, pupVars, roomVars, stopVars>>

notBody == <<bridgeVars, matrixVars, userVars, seqVars, relayVars, pollVars, provVars, licVars, wsVars, reactVars, reqVars, connVars, stepVars, pupVars, roomVars, stopVars>>

notPup == <<bridgeVars, matrixVars, userVars, seqVars, relayVars, pollVars, provVars, licVars, wsVars, reactVars, reqVars, connVars, stepVars, bodyVars, roomVars, stopVars>>

notRoom == <<bridgeVars, matrixVars, userVars, seqVars, relayVars, pollVars, provVars, licVars, wsVars, reactVars, reqVars, connVars, stepVars, bodyVars, pupVars, stopVars>>

notStop == <<bridgeVars, matrixVars, userVars, seqVars, relayVars, pollVars, provVars, licVars, wsVars, reactVars, reqVars, connVars, stepVars, bodyVars, pupVars, roomVars>>

vars == <<bridgeVars, notBridge>>

(***************************************************************************)
(* Bounds.                                                                 *)
(***************************************************************************)
MaxPortalObjs == 3
MaxRooms == 2
MaxMxEvents == 3
MaxMaxMsgs == 2
MaxInbox == 1
MaxRestarts == 1

\* User sessions with a connected Max client: each runs one listener task.
Sessions == {"u1", "u2"}
\* Matrix users that send in portal rooms; "u3" is logged in without a client.
MxUsers == {"u1", "u3"}
\* Tasks that run MatrixHandler.handle_message.
MxWorkers == {"x1"}
Tasks == Sessions \cup MxWorkers
Chats == {1}
RoomIds == 1..MaxRooms

NoLoc == [chat |-> 0, msg |-> 0, portal |-> 0, evt |-> 0, room |-> 0, sender |-> ""]

(***************************************************************************)
(* db/message.py                                                           *)
(***************************************************************************)
\* Message.get_by_max_msg_id: a row of the chat with that Max message id.
Message_get_by_max_msg_id(table, chat, msg) ==
    {i \in DOMAIN table : table[i].max_chat_id = chat /\ table[i].max_msg_id = msg}

Message_insert_NoPrimaryKey(table, row) == Append(table, row)

\* Message.insert: a plain INSERT; PRIMARY KEY (max_chat_id, max_msg_id) makes
\* it raise on a second row of the key, and the table is unchanged.
Message_insert(table, row) ==
    IF Message_get_by_max_msg_id(table, row.max_chat_id, row.max_msg_id) # {}
    THEN table
    ELSE Append(table, row)

(***************************************************************************)
(* db/portal.py                                                            *)
(***************************************************************************)
\* Portal.insert: INSERT ... ON CONFLICT (max_chat_id) DO UPDATE SET mxid=...
DBPortal_insert(table, chat, mxid) == [table EXCEPT ![chat] = mxid]

\* Portal.update: UPDATE portal SET mxid=... WHERE max_chat_id=...
DBPortal_update(table, chat, mxid) ==
    IF table[chat] # 0 THEN [table EXCEPT ![chat] = mxid] ELSE table

\* Portal.get_by_mxid: the chat of the row with that mxid (0: no row).
DBPortal_get_by_mxid(table, mxid) ==
    IF \E c \in Chats : table[c] = mxid
    THEN CHOOSE c \in Chats : table[c] = mxid
    ELSE 0

(***************************************************************************)
(* Initial state: a fresh database, nothing cached, every task idle.       *)
(***************************************************************************)
InitBridge ==
    /\ portals = <<>>
    /\ by_max_chat_id = [c \in Chats |-> 0]
    /\ by_mxid = [r \in RoomIds |-> 0]
    /\ dbPortal = [c \in Chats |-> 0]
    /\ dbMessage = <<>>
    /\ rooms = <<>>
    /\ mxEvents = <<>>
    /\ maxNext = 1
    /\ inbox = [u \in Sessions |-> <<>>]
    /\ pc = [t \in Tasks |-> "idle"]
    /\ loc = [t \in Tasks |-> NoLoc]
    /\ sent = {}
    /\ restarts = 0

\* MatrixHandler before the configuration is loaded.
NoEvt == [kind |-> "", sender |-> <<>>, lp |-> <<>>, outcome |-> ""]

InitMatrix ==
    /\ username_template = <<>>
    /\ tplPrefix = <<>>
    /\ mhPc = "boot"
    /\ mhEvt = NoEvt

\* User.__init__ (user.py:35-51) for a user without a row; -1 is None for
\* max_user_id, whose 0 is a value (provisioning.py:279, bot_client.py:96).
UTasks == {"a", "b"}
NoUserId == 0 - 1
NoRow == [exists |-> FALSE, max_user_id |-> NoUserId, max_token |-> "",
          connection_mode |-> "", bot_token |-> ""]
NoULoc == [client |-> 0, op |-> ""]
NoCompletion == [done |-> FALSE, attached |-> FALSE, row_user_id |-> NoUserId]

InitUser ==
    /\ bot_token = ""
    /\ max_token = ""
    /\ max_user_id = NoUserId
    /\ connection_mode = ""
    /\ max_client = 0
    /\ dbUser = NoRow
    /\ clients = <<>>
    /\ upc = [t \in UTasks |-> "idle"]
    /\ uloc = [t \in UTasks |-> NoULoc]
    /\ completed = NoCompletion

\* UserMaxClient.__init__ (user_client.py:162-167).
InitSeq ==
    /\ seq = 0
    /\ pending = {}
    /\ wsOpen = FALSE
    /\ allocated = <<>>
    /\ wire = <<>>

\* Nothing was edited or dispatched twice yet.
InitRelay ==
    /\ replaces = {}
    /\ edits = {}
    /\ editInbox = [u \in Sessions |-> <<>>]
    /\ mxEdits = {}
    /\ redelivered = {}

NoFault == [kind |-> "none", retry_after |-> 0]

\* A connected bot client (bot_client.py:92-104): /me answered, the polling
\* task created, no marker yet (bot_client.py:47).
InitPoll ==
    /\ updates = <<>>
    /\ marker = 0
    /\ batch = <<>>
    /\ dispatched = <<>>
    /\ handling = {}
    /\ bpc = "request"
    /\ running = TRUE
    /\ got401 = FALSE
    /\ after401 = 0
    /\ fault = NoFault
    /\ sleepSecs = 0

NoReply == [ep |-> "", header |-> <<>>, status |-> 0, type |-> "", connected |-> FALSE, effect |-> FALSE]
NoFlight == [login_id |-> 0, header |-> <<>>, token |-> 0, connects |-> FALSE]

\* provisioning.py:30-35: no login session; the user of the requests is not
\* logged in.
InitProv ==
    /\ login_sessions = <<>>
    /\ nextLogin = 1
    /\ provUser = [bot_token |-> 0, max_token |-> 0, connected |-> FALSE]
    /\ opened = 0
    /\ lastReply = NoReply
    /\ inflight = NoFlight

NoExit == 0 - 1

\* __main__.py:103 and 132-133: the startup check passed and the periodic
\* task was created; it is in its first sleep.
InitLic ==
    /\ now = 0
    /\ lpc = "sleep24"
    /\ grace_end = 0
    /\ resolved = FALSE
    /\ exit_code = NoExit
    /\ rechecks = 0

\* A connected user client (user_client.py:257-283): the listener task runs
\* and waits for a frame.
InitWs ==
    /\ wsIn = <<>>
    /\ wsSent = 0
    /\ wsEmitted = 0
    /\ wsStarted = <<>>
    /\ wsHandling = {}
    /\ wpc = "receive"
    /\ wsAcked = <<>>
    /\ wsCur = 0
    /\ wsFault = "none"

\* db/upgrade.py:53-61: the table is created empty.
InitReact == dbReaction = {}

ReqCallers == {"c1", "c2", "flow"}
NoOutcome == [kind |-> "none", val |-> ""]

\* user_client.py:154-173: a client as constructed: no socket, no listener,
\* _seq 0 and an empty table.
InitReq ==
    /\ rqMode = "fresh"
    /\ rqWs = "none"
    /\ rqRunning = FALSE
    /\ rqListen = "none"
    /\ rqSeq = 0
    /\ rqPending = {}
    /\ rqFut = <<>>
    /\ rqWire = <<>>
    /\ rqIn = <<>>
    /\ cpc = [c \in ReqCallers |-> "idle"]
    /\ cseq = [c \in ReqCallers |-> 0]
    /\ cout = [c \in ReqCallers |-> NoOutcome]
    /\ dpc = "idle"
    /\ apc = "idle"

NoLogin == [token |-> "", me |-> NoUserId, chats |-> {}]
NoTask == {0}
NoClient == [auth_token |-> "", me |-> NoUserId, ws |-> "none", listen |-> "none",
             keepalive |-> FALSE]
SavedTokens == {"tok"}
SavedUserIds == {0, 5}

\* user.py:47-62: a User object before its row is read.
InitConn ==
    /\ cnPc = "new"
    /\ cnUser = [max_token |-> "", max_user_id |-> NoUserId, max_client |-> FALSE]
    /\ cnRow = [max_token |-> "", max_user_id |-> NoUserId]
    /\ cnClient = NoClient
    /\ cnLogin = NoLogin
    /\ cnSyncTask = NoTask
    /\ cnDispatched = 0
    /\ cnLate = 0

StepRequests == {"r1", "r2"}
NoStepLoc == [session |-> "", elapsed |-> 0, raised |-> ""]
NoStepReply == [status |-> 0, type |-> ""]

\* provisioning.py:30-35: no login session yet.
InitStep ==
    /\ stSession = ""
    /\ stPc = [r \in StepRequests |-> "idle"]
    /\ stLoc = [r \in StepRequests |-> NoStepLoc]
    /\ stReply = [r \in StepRequests |-> NoStepReply]
    /\ stLoginCalls = 0
    /\ stRequests = 0

NoPuppet == [exists |-> FALSE, name |-> "", username |-> "", name_set |-> FALSE,
             avatar_set |-> FALSE]
NoInfo == [name |-> "", username |-> "", avatar_url |-> ""]
NoCall == [repeat |-> FALSE, hs_calls |-> {}, saved |-> FALSE]

\* puppet.py:21-23 and db/upgrade.py: an empty cache and no row.
InitPup ==
    /\ ppCache = NoPuppet
    /\ ppDb = NoPuppet
    /\ ppPrev = [info |-> NoInfo, success |-> FALSE]
    /\ ppCall = NoCall
    /\ ppCalls = 0
    /\ ppRestarts = 0

\* A connected user client whose listener has received nothing yet.
InitBody ==
    /\ bdIn = <<>>
    /\ bdHandled = <<>>

MaxRoomTriggers == 4
MaxHsRooms == 2
\* The tasks that call create_matrix_room of the Portal.
RoomTriggers == {"t1", "t2"}

\* portal.py:35-60: a shadow Portal: no room, the lock free, no row.
InitRoom ==
    /\ rmPc = [t \in RoomTriggers |-> "idle"]
    /\ rmPortal = [mxid |-> 0, lock |-> ""]
    /\ rmByMxid = {}
    /\ rmDb = 0
    /\ rmRooms = 0
    /\ rmStarted = 0

MaxStopEvents == 2
MaxStopSent == 2
MaxBatch == 2
\* A task nobody created: bot_client.py:37-38, user_client.py:141-142.
NoStopTask == [pc |-> "none", must_cancel |-> FALSE, got |-> "", queue |-> 0]

\* user.py:60-75: a session without a client.
InitStop ==
    /\ dcMode = "none"
    /\ dcRunning = FALSE
    /\ dcWs = "none"
    /\ dcTasks = [t \in {"loop", "keepalive"} |-> NoStopTask]
    /\ dcDisc = "idle"
    /\ dcDispatched = 0
    /\ dcSent = 0

InitExtra ==
    /\ InitRelay /\ InitPoll /\ InitProv /\ InitLic /\ InitWs /\ InitReact /\ InitReq
    /\ InitConn /\ InitStep /\ InitBody /\ InitPup /\ InitRoom
    /\ InitStop

Init == InitBridge /\ InitMatrix /\ InitUser /\ InitSeq /\ InitExtra

SetLoc(t, f, v) == [loc EXCEPT ![t][f] = v]
Goto(t, label) == [pc EXCEPT ![t] = label]

(***************************************************************************)
(* The environment: Max and Matrix users.                                  *)
(***************************************************************************)
\* A Max user sends a message in a chat; Max delivers message_created to the
\* sessions that are members. The frame may carry no message id
\* (user_client.py:614 and bot_client.py:179-183 default it to "").
MaxUserSends(c, withId, rcpt) ==
    /\ maxNext <= MaxMaxMsgs
    /\ rcpt # {}
    /\ \A u \in rcpt : Len(inbox[u]) < MaxInbox
    /\ inbox' = [u \in Sessions |->
                   IF u \in rcpt
                   THEN Append(inbox[u], [chat |-> c, msg |-> IF withId THEN maxNext ELSE 0])
                   ELSE inbox[u]]
    /\ maxNext' = maxNext + 1
    /\ UNCHANGED <<portals, by_max_chat_id, by_mxid, dbPortal, dbMessage, rooms,
                   mxEvents, pc, loc, sent, restarts>>
    /\ UNCHANGED notBridge

(***************************************************************************)
(* User._on_max_event for message_created, run by the session's listener   *)
(* (user_client.py _listen_loop / bot_client.py _poll_loop), one event at  *)
(* a time per session.                                                     *)
(***************************************************************************)
\* user.py:428 and portal.py:69-71: the cache lookup of get_by_max_chat_id; a
\* miss awaits the database.
OnMaxEvent(u) ==
    /\ pc[u] = "idle"
    /\ inbox[u] # <<>>
    /\ LET ev == Head(inbox[u]) IN
        /\ inbox' = [inbox EXCEPT ![u] = Tail(@)]
        /\ loc' = [loc EXCEPT ![u] = [NoLoc EXCEPT !.chat = ev.chat, !.msg = ev.msg,
                                                   !.portal = by_max_chat_id[ev.chat]]]
        /\ pc' = Goto(u, IF by_max_chat_id[ev.chat] # 0 THEN "dedup" ELSE "gbc_db")
    /\ UNCHANGED <<portals, by_max_chat_id, by_mxid, dbPortal, dbMessage, rooms,
                   mxEvents, maxNext, sent, restarts>>
    /\ UNCHANGED notBridge

\* portal.py:71-88: the database answered; build the Portal from the row, or a
\* new shadow Portal (create=True), and register it.
GetByMaxChatIdDb(u) ==
    /\ pc[u] = "gbc_db"
    /\ Len(portals) < MaxPortalObjs
    /\ LET c == loc[u].chat
           row == dbPortal[c]
           new == Len(portals) + 1 IN
        /\ portals' = Append(portals, [max_chat_id |-> c, mxid |-> row,
                                       db |-> row # 0, lock |-> ""])
        /\ by_max_chat_id' = [by_max_chat_id EXCEPT ![c] = new]
        /\ by_mxid' = IF row # 0 THEN [by_mxid EXCEPT ![row] = new] ELSE by_mxid
        /\ loc' = SetLoc(u, "portal", new)
        /\ pc' = Goto(u, "dedup")
    /\ UNCHANGED <<dbPortal, dbMessage, rooms, mxEvents, maxNext, inbox, sent, restarts>>
    /\ UNCHANGED notBridge

IsDuplicate_Never(table, chat, msg) == FALSE

\* user.py:434-440: a row exists for the event's non-empty message id.
IsDuplicate(table, chat, msg) ==
    /\ msg # 0
    /\ Message_get_by_max_msg_id(table, chat, msg) # {}

\* user.py:432-441 and portal.py:138-146: drop the event when a correlation
\* row exists for a non-empty message id; otherwise handle_max_message, which
\* without a room fetches the chat info (awaited, best effort) and calls
\* create_matrix_room.
Dedup(u) ==
    /\ pc[u] = "dedup"
    /\ IF IsDuplicate(dbMessage, loc[u].chat, loc[u].msg)
       THEN /\ pc' = Goto(u, "idle")
            /\ loc' = [loc EXCEPT ![u] = NoLoc]
       ELSE /\ pc' = Goto(u, IF portals[loc[u].portal].mxid # 0 THEN "hmm_send" ELSE "cmr")
            /\ UNCHANGED loc
    /\ UNCHANGED <<portals, by_max_chat_id, by_mxid, dbPortal, dbMessage, rooms,
                   mxEvents, maxNext, inbox, sent, restarts>>
    /\ UNCHANGED notBridge

\* portal.py:111 and 116: the room id checks of create_matrix_room.
NeedsRoom(p) == portals[p].mxid = 0

\* portal.py:111-123: return the room if there is one; take _create_room_lock
\* when it is free (then create_room is awaited), or wait for it.
CreateMatrixRoomEnter(u) ==
    /\ pc[u] = "cmr"
    /\ LET p == loc[u].portal IN
        IF ~NeedsRoom(p)
        THEN /\ pc' = Goto(u, "hmm_send")
             /\ UNCHANGED portals
        ELSE IF portals[p].lock = ""
        THEN /\ portals' = [portals EXCEPT ![p].lock = u]
             /\ pc' = Goto(u, "cmr_create")
        ELSE /\ pc' = Goto(u, "cmr_wait")
             /\ UNCHANGED portals
    /\ UNCHANGED <<by_max_chat_id, by_mxid, dbPortal, dbMessage, rooms,
                   mxEvents, maxNext, inbox, loc, sent, restarts>>
    /\ UNCHANGED notBridge

\* portal.py:114-117: the lock was released; take it and check again.
CreateMatrixRoomWake(u) ==
    /\ pc[u] = "cmr_wait"
    /\ LET p == loc[u].portal IN
        /\ portals[p].lock = ""
        /\ IF NeedsRoom(p)
           THEN /\ portals' = [portals EXCEPT ![p].lock = u]
                /\ pc' = Goto(u, "cmr_create")
           ELSE /\ pc' = Goto(u, "hmm_send")
                /\ UNCHANGED portals
    /\ UNCHANGED <<by_max_chat_id, by_mxid, dbPortal, dbMessage, rooms,
                   mxEvents, maxNext, inbox, loc, sent, restarts>>
    /\ UNCHANGED notBridge

\* portal.py:123-130: the homeserver created the room; record it on the
\* Portal and in by_mxid, then _save is awaited.
CreateRoom(u) ==
    /\ pc[u] = "cmr_create"
    /\ Len(rooms) < MaxRooms
    /\ LET p == loc[u].portal
           r == Len(rooms) + 1 IN
        /\ rooms' = Append(rooms, portals[p].max_chat_id)
        /\ portals' = [portals EXCEPT ![p].mxid = r]
        /\ by_mxid' = [by_mxid EXCEPT ![r] = p]
    /\ pc' = Goto(u, "cmr_save")
    /\ UNCHANGED <<by_max_chat_id, dbPortal, dbMessage, mxEvents, maxNext, inbox,
                   loc, sent, restarts>>
    /\ UNCHANGED notBridge

\* portal.py:269-282: Portal._save: update through _db when there is one,
\* insert (an upsert) otherwise.
Portal_save(p) ==
    IF portals[p].db
    THEN DBPortal_update(dbPortal, portals[p].max_chat_id, portals[p].mxid)
    ELSE DBPortal_insert(dbPortal, portals[p].max_chat_id, portals[p].mxid)

\* portal.py:130-132: _save finished; the lock is released on return.
SavePortal(u) ==
    /\ pc[u] = "cmr_save"
    /\ LET p == loc[u].portal IN
        /\ dbPortal' = Portal_save(p)
        /\ portals' = [portals EXCEPT ![p].db = TRUE, ![p].lock = ""]
    /\ pc' = Goto(u, "hmm_send")
    /\ UNCHANGED <<by_max_chat_id, by_mxid, dbMessage, rooms, mxEvents, maxNext,
                   inbox, loc, sent, restarts>>
    /\ UNCHANGED notBridge

\* portal.py:148-172: the text is sent to the room; the homeserver returns
\* the event id.
SendToMatrix(u) ==
    /\ pc[u] = "hmm_send"
    /\ Len(mxEvents) < MaxMxEvents
    /\ mxEvents' = Append(mxEvents, [room |-> portals[loc[u].portal].mxid,
                                     origin |-> "bridge",
                                     chat |-> loc[u].chat,
                                     max_msg_id |-> loc[u].msg])
    /\ loc' = SetLoc(u, "evt", Len(mxEvents) + 1)
    /\ pc' = Goto(u, "hmm_insert")
    /\ UNCHANGED <<portals, by_max_chat_id, by_mxid, dbPortal, dbMessage, rooms,
                   maxNext, inbox, sent, restarts>>
    /\ UNCHANGED notBridge

\* portal.py:175 and 244: the mapping is saved unless the message id is empty.
SavesMapping(msg) == msg # 0

\* portal.py:174-182: save the mapping; an exception of the insert is caught
\* by the dispatcher (base_client.py:99-102).
InsertUp(u) ==
    /\ pc[u] = "hmm_insert"
    /\ dbMessage' = IF SavesMapping(loc[u].msg)
                    THEN Message_insert(dbMessage,
                            [max_chat_id |-> loc[u].chat, max_msg_id |-> loc[u].msg,
                             mxid |-> loc[u].evt,
                             mx_room |-> portals[loc[u].portal].mxid])
                    ELSE dbMessage
    /\ pc' = Goto(u, "idle")
    /\ loc' = [loc EXCEPT ![u] = NoLoc]
    /\ UNCHANGED <<portals, by_max_chat_id, by_mxid, dbPortal, rooms, mxEvents,
                   maxNext, inbox, sent, restarts>>
    /\ UNCHANGED notBridge

(***************************************************************************)
(* MatrixHandler.handle_message -> Portal.handle_matrix_message for a text *)
(* message that is no edit, sent by a Matrix user who is not a ghost.      *)
(***************************************************************************)
\* matrix.py:147-153 and portal.py:210-241: with the portal found, the sender
\* is looked up; without a Max client the message is dropped, otherwise
\* send_message is awaited.
ToMax(x, s) == IF s \in Sessions THEN Goto(x, "hmx_send") ELSE Goto(x, "idle")

\* matrix.py:134-145 and portal.py:92-94: a user's event arrives; the cache
\* lookup of get_by_mxid; a miss awaits the database.
MatrixMessage(x, s, r) ==
    /\ pc[x] = "idle"
    /\ r \in DOMAIN rooms
    /\ Len(mxEvents) < MaxMxEvents
    /\ mxEvents' = Append(mxEvents, [room |-> r, origin |-> "user", chat |-> 0,
                                     max_msg_id |-> 0])
    /\ IF by_mxid[r] = 0
       THEN /\ loc' = [loc EXCEPT ![x] = [NoLoc EXCEPT !.evt = Len(mxEvents) + 1,
                                                       !.sender = s, !.room = r]]
            /\ pc' = Goto(x, "gbm_db")
       ELSE /\ loc' = [loc EXCEPT ![x] =
                         IF s \in Sessions
                         THEN [NoLoc EXCEPT !.evt = Len(mxEvents) + 1, !.sender = s,
                                            !.room = r, !.portal = by_mxid[r],
                                            !.chat = portals[by_mxid[r]].max_chat_id]
                         ELSE NoLoc]
            /\ pc' = ToMax(x, s)
    /\ UNCHANGED <<portals, by_max_chat_id, by_mxid, dbPortal, dbMessage, rooms,
                   maxNext, inbox, sent, restarts>>
    /\ UNCHANGED notBridge

\* portal.py:94-105: the database answered; build and register the Portal of
\* the row, or return None (the handler returns, matrix.py:144-145).
GetByMxidDb(x) ==
    /\ pc[x] = "gbm_db"
    /\ LET r == loc[x].room
           c == DBPortal_get_by_mxid(dbPortal, r)
           new == Len(portals) + 1 IN
        IF c = 0
        THEN /\ pc' = Goto(x, "idle")
             /\ loc' = [loc EXCEPT ![x] = NoLoc]
             /\ UNCHANGED <<portals, by_max_chat_id, by_mxid>>
        ELSE /\ Len(portals) < MaxPortalObjs
             /\ portals' = Append(portals, [max_chat_id |-> c, mxid |-> r,
                                            db |-> TRUE, lock |-> ""])
             /\ by_max_chat_id' = [by_max_chat_id EXCEPT ![c] = new]
             /\ by_mxid' = [by_mxid EXCEPT ![r] = new]
             /\ loc' = [loc EXCEPT ![x] =
                          IF loc[x].sender \in Sessions
                          THEN [loc[x] EXCEPT !.portal = new, !.chat = c]
                          ELSE NoLoc]
             /\ pc' = ToMax(x, loc[x].sender)
    /\ UNCHANGED <<dbPortal, dbMessage, rooms, mxEvents, maxNext, inbox, sent, restarts>>
    /\ UNCHANGED notBridge

\* Max accepts the message, assigns its id and answers; the response may
\* carry no id (user_client.py:664, bot_client.py:237 default it to ""). Max
\* then delivers message_created for it to member sessions, possibly to the
\* sender's own (the echo).
MaxAcceptsSend(x, withId, rcpt) ==
    /\ pc[x] = "hmx_send"
    /\ maxNext <= MaxMaxMsgs
    /\ \A u \in rcpt : Len(inbox[u]) < MaxInbox
    /\ inbox' = [u \in Sessions |->
                   IF u \in rcpt
                   THEN Append(inbox[u], [chat |-> loc[x].chat, msg |-> maxNext])
                   ELSE inbox[u]]
    /\ maxNext' = maxNext + 1
    /\ loc' = SetLoc(x, "msg", IF withId THEN maxNext ELSE 0)
    /\ sent' = sent \cup {[chat |-> loc[x].chat, msg |-> IF withId THEN maxNext ELSE 0,
                           evt |-> loc[x].evt]}
    /\ pc' = Goto(x, "hmx_insert")
    /\ UNCHANGED <<portals, by_max_chat_id, by_mxid, dbPortal, dbMessage, rooms,
                   mxEvents, restarts>>
    /\ UNCHANGED notBridge

\* portal.py:243-251: save the mapping of the returned message id.
InsertDown(x) ==
    /\ pc[x] = "hmx_insert"
    /\ dbMessage' = IF SavesMapping(loc[x].msg)
                    THEN Message_insert(dbMessage,
                            [max_chat_id |-> loc[x].chat, max_msg_id |-> loc[x].msg,
                             mxid |-> loc[x].evt,
                             mx_room |-> portals[loc[x].portal].mxid])
                    ELSE dbMessage
    /\ pc' = Goto(x, "idle")
    /\ loc' = [loc EXCEPT ![x] = NoLoc]
    /\ UNCHANGED <<portals, by_max_chat_id, by_mxid, dbPortal, rooms, mxEvents,
                   maxNext, inbox, sent, restarts>>
    /\ UNCHANGED notBridge

\* The bridge process is restarted while no handler is in flight: the class
\* caches (portal.py:31-32) and the clients' connections start empty, the
\* database and the homeserver keep their state.
Restart ==
    /\ restarts < MaxRestarts
    /\ \A t \in Tasks : pc[t] = "idle"
    /\ restarts' = restarts + 1
    /\ portals' = <<>>
    /\ by_max_chat_id' = [c \in Chats |-> 0]
    /\ by_mxid' = [r \in RoomIds |-> 0]
    /\ inbox' = [u \in Sessions |-> <<>>]
    /\ loc' = [t \in Tasks |-> NoLoc]
    /\ UNCHANGED <<dbPortal, dbMessage, rooms, mxEvents, maxNext, pc, sent>>
    /\ UNCHANGED notBridge

NextBridge ==
    \/ \E c \in Chats, withId \in BOOLEAN, rcpt \in SUBSET Sessions :
          MaxUserSends(c, withId, rcpt)
    \/ \E u \in Sessions : OnMaxEvent(u)
    \/ \E u \in Sessions : GetByMaxChatIdDb(u)
    \/ \E u \in Sessions : Dedup(u)
    \/ \E u \in Sessions : CreateMatrixRoomEnter(u)
    \/ \E u \in Sessions : CreateMatrixRoomWake(u)
    \/ \E u \in Sessions : CreateRoom(u)
    \/ \E u \in Sessions : SavePortal(u)
    \/ \E u \in Sessions : SendToMatrix(u)
    \/ \E u \in Sessions : InsertUp(u)
    \/ \E x \in MxWorkers, s \in MxUsers, r \in RoomIds : MatrixMessage(x, s, r)
    \/ \E x \in MxWorkers : GetByMxidDb(x)
    \/ \E x \in MxWorkers, withId \in BOOLEAN, rcpt \in SUBSET Sessions :
          MaxAcceptsSend(x, withId, rcpt)
    \/ \E x \in MxWorkers : InsertDown(x)
    \/ Restart

SpecBridge == Init /\ [][NextBridge]_vars

(***************************************************************************)
(* SpecMsg: the message paths alone, from the state SpecBridge reaches     *)
(* when session u1 has bridged the first Max message (id 1) of chat 1, the *)
(* room is materialized and persisted, and everything has settled.         *)
(***************************************************************************)
InitMsg ==
    /\ portals = <<[max_chat_id |-> 1, mxid |-> 1, db |-> TRUE, lock |-> ""]>>
    /\ by_max_chat_id = [c \in Chats |-> 1]
    /\ by_mxid = [r \in RoomIds |-> IF r = 1 THEN 1 ELSE 0]
    /\ dbPortal = [c \in Chats |-> 1]
    /\ dbMessage = <<[max_chat_id |-> 1, max_msg_id |-> 1, mxid |-> 1, mx_room |-> 1]>>
    /\ rooms = <<1>>
    /\ mxEvents = <<[room |-> 1, origin |-> "bridge", chat |-> 1, max_msg_id |-> 1]>>
    /\ maxNext = 2
    /\ inbox = [u \in Sessions |-> <<>>]
    /\ pc = [t \in Tasks |-> "idle"]
    /\ loc = [t \in Tasks |-> NoLoc]
    /\ sent = {}
    /\ restarts = 0
    /\ InitMatrix /\ InitUser /\ InitSeq /\ InitExtra

NextMsg ==
    \/ \E c \in Chats, withId \in BOOLEAN, rcpt \in SUBSET Sessions :
          MaxUserSends(c, withId, rcpt)
    \/ \E u \in Sessions : OnMaxEvent(u)
    \/ \E u \in Sessions : Dedup(u)
    \/ \E u \in Sessions : SendToMatrix(u)
    \/ \E u \in Sessions : InsertUp(u)
    \/ \E x \in MxWorkers, s \in MxUsers, r \in RoomIds : MatrixMessage(x, s, r)
    \/ \E x \in MxWorkers, withId \in BOOLEAN, rcpt \in SUBSET Sessions :
          MaxAcceptsSend(x, withId, rcpt)
    \/ \E x \in MxWorkers : InsertDown(x)

SpecMsg == InitMsg /\ [][NextMsg]_vars

(***************************************************************************)
(* Properties of the bridge engine.                                        *)
(***************************************************************************)
RoomsOf(c) == {r \in DOMAIN rooms : rooms[r] = c}

\* C1: under any interleaving of triggers for one Max chat id
\* (get_by_max_chat_id, then create_matrix_room), at most one Matrix room is
\* ever created for the chat.
C1_AtMostOneRoomPerChat == \A c \in Chats : Cardinality(RoomsOf(c)) <= 1

\* A Max message id the downstream path got back from send_message.
Returned(c, m) == \E s \in sent : s.chat = c /\ s.msg = m

\* C2: the message_created echo that carries a (non-empty) message id
\* returned to handle_matrix_message never produces a Matrix event.
C2_EchoNeverBridged ==
    \A i \in DOMAIN mxEvents :
        mxEvents[i].origin = "bridge" =>
            ~(mxEvents[i].max_msg_id # 0 /\ Returned(mxEvents[i].chat, mxEvents[i].max_msg_id))

Settled == /\ \A t \in Tasks : pc[t] = "idle"
           /\ \A u \in Sessions : inbox[u] = <<>>

\* A message counts as bridged when its handler got the other side's id back:
\* upstream when the homeserver returned the event id, downstream when
\* send_message returned.
BridgedUp == {i \in DOMAIN mxEvents : mxEvents[i].origin = "bridge"}
RowsOf(c, m) == Message_get_by_max_msg_id(dbMessage, c, m)

C4_MxidNeverChanges ==
    [][ /\ \A p \in DOMAIN portals :
              (p \in DOMAIN portals' /\ portals[p].mxid # 0 /\ restarts' = restarts)
                  => portals'[p].mxid = portals[p].mxid
        /\ \A c \in Chats : dbPortal[c] # 0 => dbPortal'[c] = dbPortal[c] ]_vars

\* C5: the chat id / room id binding is one-to-one: one Portal object per chat
\* id, one Portal per room id, and by_mxid[r] is a Portal with mxid r that is
\* the one registered under its chat id.
C5_BindingOneToOne ==
    /\ \A p, q \in DOMAIN portals :
          portals[p].max_chat_id = portals[q].max_chat_id => p = q
    /\ \A p, q \in DOMAIN portals :
          (portals[p].mxid # 0 /\ portals[p].mxid = portals[q].mxid) => p = q
    /\ \A r \in RoomIds :
          by_mxid[r] # 0 =>
              /\ portals[by_mxid[r]].mxid = r
              /\ by_max_chat_id[portals[by_mxid[r]].max_chat_id] = by_mxid[r]

(***************************************************************************)
(* SpecMatrix: MatrixHandler and MaxBridge.is_bridge_ghost. Strings are    *)
(* sequences of characters; the placeholder {userid} is one symbol.        *)
(***************************************************************************)
MaxLocalLen == 2

LocalChars == {"m", "_"}
\* Localparts of Matrix user ids (they hold no ':').
Localparts == UNION {[1..n -> LocalChars] : n \in 0..MaxLocalLen}
\* Server names, with and without a port.
Domains == {<<"h">>, <<"h", ":", "8">>}
\* What an operator puts before and after {userid} in username_template.
Prefixes == {<<"m", "_">>, <<"m">>, <<>>}
Suffixes == {<<>>, <<"_">>}

\* A Matrix user id: @localpart:domain.
UserID(lp, dom) == <<"@">> \o lp \o <<":">> \o dom

\* str.split(sep)[0]: the text before the first sep, all of it without one.
SplitHead(str, sep) ==
    IF \E i \in 1..Len(str) : str[i] = sep
    THEN LET first == CHOOSE i \in 1..Len(str) :
                          /\ str[i] = sep
                          /\ \A j \in 1..(i - 1) : str[j] # sep
         IN SubSeq(str, 1, first - 1)
    ELSE str

\* str[1:]
DropFirst(str) == SubSeq(str, 2, Len(str))

\* str.startswith(prefix)
StartsWith(str, prefix) ==
    /\ Len(prefix) <= Len(str)
    /\ SubSeq(str, 1, Len(prefix)) = prefix

is_bridge_ghost_KeepsSigil(template, user_id) ==
    StartsWith(SplitHead(user_id, ":"), SplitHead(template, "{userid}"))

\* __main__.py:164-167
is_bridge_ghost(template, user_id) ==
    LET prefix == SplitHead(template, "{userid}")
        localpart == DropFirst(SplitHead(user_id, ":"))
    IN StartsWith(localpart, prefix)

\* The configuration is loaded before the handler serves events.
LoadConfig(pre, suf) ==
    /\ mhPc = "boot"
    /\ username_template' = pre \o <<"{userid}">> \o suf
    /\ tplPrefix' = pre
    /\ mhPc' = "idle"
    /\ UNCHANGED mhEvt
    /\ UNCHANGED notMatrix

\* The head of the three handlers: what becomes of an event at the ghost
\* check (matrix.py:140, 168, 45).
GhostGuard(kind, lp, dom) ==
    [kind |-> kind, sender |-> UserID(lp, dom), lp |-> lp,
     outcome |-> IF is_bridge_ghost(username_template, UserID(lp, dom))
                 THEN "ghost" ELSE "lookup"]

AfterGuard(evt) == IF evt.outcome = "ghost" THEN "idle" ELSE "lookup"

\* matrix.py:134-141: return when the sender is a ghost, otherwise await
\* Portal.get_by_mxid and User.get_by_mxid.
HandleMessage(lp, dom) ==
    /\ mhPc = "idle"
    /\ mhEvt' = GhostGuard("message", lp, dom)
    /\ mhPc' = AfterGuard(mhEvt')
    /\ UNCHANGED <<username_template, tplPrefix>>
    /\ UNCHANGED notMatrix

\* matrix.py:162-169
HandleRedaction(lp, dom) ==
    /\ mhPc = "idle"
    /\ mhEvt' = GhostGuard("redaction", lp, dom)
    /\ mhPc' = AfterGuard(mhEvt')
    /\ UNCHANGED <<username_template, tplPrefix>>
    /\ UNCHANGED notMatrix

\* matrix.py:33-46: handle_event sends m.reaction to _handle_reaction.
HandleReaction(lp, dom) ==
    /\ mhPc = "idle"
    /\ mhEvt' = GhostGuard("reaction", lp, dom)
    /\ mhPc' = AfterGuard(mhEvt')
    /\ UNCHANGED <<username_template, tplPrefix>>
    /\ UNCHANGED notMatrix

\* matrix.py:143-160, 171-179, 48-80: without a portal, without a logged-in
\* sender, or with content the handler does not take (no relation or key on
\* a reaction, an unknown message type) the event is dropped; otherwise it is
\* handed to the portal.
HandToPortal(found, logged_in, usable) ==
    /\ mhPc = "lookup"
    /\ mhEvt' = [mhEvt EXCEPT !.outcome =
                    IF ~found THEN "noportal"
                    ELSE IF ~logged_in THEN "nologin"
                    ELSE IF ~usable THEN "unusable"
                    ELSE "portal"]
    /\ mhPc' = "idle"
    /\ UNCHANGED <<username_template, tplPrefix>>
    /\ UNCHANGED notMatrix

NextMatrix ==
    \/ \E pre \in Prefixes, suf \in Suffixes : LoadConfig(pre, suf)
    \/ \E lp \in Localparts, dom \in Domains : HandleMessage(lp, dom)
    \/ \E lp \in Localparts, dom \in Domains : HandleRedaction(lp, dom)
    \/ \E lp \in Localparts, dom \in Domains : HandleReaction(lp, dom)
    \/ \E found \in BOOLEAN, logged_in \in BOOLEAN, usable \in BOOLEAN :
          HandToPortal(found, logged_in, usable)

SpecMatrix == Init /\ [][NextMatrix]_vars

\* C6: no message, redaction or reaction is handed to a portal when the
\* sender's localpart starts with the puppet template prefix.
C6_NoGhostEventReachesPortal ==
    mhEvt.outcome = "portal" => ~StartsWith(mhEvt.lp, tplPrefix)

\* C6 witness: a ghost's reaction was dropped at the guard, under a template
\* whose prefix is not empty.
C6_Witness ==
    /\ tplPrefix # <<>>
    /\ mhEvt.kind = "reaction"
    /\ mhEvt.outcome = "ghost"
    /\ StartsWith(mhEvt.lp, tplPrefix)

(***************************************************************************)
(* SpecUser: one User object and the tasks that call into it: the startup  *)
(* connect task (__main__.py:141), the provisioning API's login and logout *)
(* requests (web/provisioning.py:205, 277, 306, 352, 392) and disconnect   *)
(* (__main__.py:145). A client's connect and disconnect await the network. *)
(***************************************************************************)
MaxClients == 3

BotTokens == {"bt"}
AuthTokens == {"tok"}
\* user_data.get("user_id", 0) of the provisioning API.
LoginUserIds == {0, 5}
\* resp.get("user_id", 0) of GET /me (bot_client.py:95-96).
BotMeIds == {0, 7}
\* contact id of the token login's profile; without a profile _me stays None
\* (user_client.py:302-313).
UserMeIds == {NoUserId, 5}

\* user.py:89-91
is_logged_in == bot_token # "" \/ max_token # ""

\* The rows an earlier run of the bridge leaves behind: none, a bot login
\* whose connect has or has not stored the id, a user login.
StartupRows ==
    {NoRow}
    \cup {[exists |-> TRUE, max_user_id |-> u, max_token |-> "",
           connection_mode |-> "bot", bot_token |-> b] :
              u \in BotMeIds \cup {NoUserId}, b \in BotTokens}
    \cup {[exists |-> TRUE, max_user_id |-> u, max_token |-> a,
           connection_mode |-> "user", bot_token |-> ""] :
              u \in LoginUserIds, a \in AuthTokens}

\* __main__.py:132-141: the User is built from its row; start() creates the
\* connect task of a logged-in user (task "a").
InitUserStartup ==
    \E row \in StartupRows :
        /\ dbUser = row
        /\ bot_token = row.bot_token
        /\ max_token = row.max_token
        /\ max_user_id = row.max_user_id
        /\ connection_mode = row.connection_mode
        /\ max_client = 0
        /\ clients = <<>>
        /\ upc = [t \in UTasks |-> IF t = "a" /\ row.exists THEN "connect" ELSE "idle"]
        /\ uloc = [t \in UTasks |-> NoULoc]
        /\ completed = NoCompletion

\* user.py:477-492: the row _save writes (insert is an upsert on mxid).
User_save(uid, mtok, mode, btok) ==
    [exists |-> TRUE, max_user_id |-> uid, max_token |-> mtok,
     connection_mode |-> mode, bot_token |-> btok]

\* user.py:98-111: which client connect builds ("": no valid credentials).
ClientMode ==
    IF connection_mode = "bot" /\ bot_token # "" THEN "bot"
    ELSE IF connection_mode = "user" /\ max_token # "" THEN "user"
    ELSE ""

NewClient == [mode |-> ClientMode, connected |-> FALSE, disconnected |-> FALSE,
              me |-> NoUserId]

\* What a completing connect call leaves: is a client attached, and the
\* max_user_id of the row.
Completion(mc, row) ==
    [done |-> TRUE, attached |-> mc # 0,
     row_user_id |-> IF row.exists THEN row.max_user_id ELSE NoUserId]

\* bot_client.py:106-116, user_client.py:324-338: disconnect stops the client
\* at once and then awaits the closing of its tasks, socket and session.
Client_disconnect(c) == [clients EXCEPT ![c].disconnected = TRUE]

\* user.py:453-457: login_bot up to the awaited _save.
LoginBot(t, tok) ==
    /\ upc[t] = "idle"
    /\ bot_token' = tok
    /\ connection_mode' = "bot"
    /\ dbUser' = User_save(max_user_id, max_token, "bot", tok)
    /\ upc' = [upc EXCEPT ![t] = "connect"]
    /\ UNCHANGED <<max_token, max_user_id, max_client, clients, uloc, completed>>
    /\ UNCHANGED notUser

\* user.py:460-465: login_user up to the awaited _save.
LoginUser(t, tok, uid) ==
    /\ upc[t] = "idle"
    /\ max_token' = tok
    /\ max_user_id' = uid
    /\ connection_mode' = "user"
    /\ dbUser' = User_save(uid, tok, "user", bot_token)
    /\ upc' = [upc EXCEPT ![t] = "connect"]
    /\ UNCHANGED <<bot_token, max_client, clients, uloc, completed>>
    /\ UNCHANGED notUser

\* user.py:93-116: connect. With a client attached, disconnect is awaited
\* first; otherwise the client is built and attached and its connect awaited,
\* or connect returns for lack of credentials.
Connect(t) ==
    /\ upc[t] = "connect"
    /\ IF max_client # 0
       THEN /\ clients' = Client_disconnect(max_client)
            /\ upc' = [upc EXCEPT ![t] = "conn_disc"]
            /\ UNCHANGED <<max_client, uloc, completed>>
       ELSE IF ClientMode = ""
       THEN /\ upc' = [upc EXCEPT ![t] = "idle"]
            /\ completed' = Completion(0, dbUser)
            /\ UNCHANGED <<max_client, clients, uloc>>
       ELSE /\ Len(clients) < MaxClients
            /\ clients' = Append(clients, NewClient)
            /\ max_client' = Len(clients) + 1
            /\ uloc' = [uloc EXCEPT ![t].client = Len(clients) + 1]
            /\ upc' = [upc EXCEPT ![t] = "cl_connect"]
            /\ UNCHANGED completed
    /\ UNCHANGED <<bot_token, max_token, max_user_id, connection_mode, dbUser>>
    /\ UNCHANGED notUser

\* user.py:410-412 then 98-116: the disconnect inside connect returned;
\* max_client is cleared and connect goes on.
ConnectAfterDisconnect(t) ==
    /\ upc[t] = "conn_disc"
    /\ IF ClientMode = ""
       THEN /\ max_client' = 0
            /\ upc' = [upc EXCEPT ![t] = "idle"]
            /\ completed' = Completion(0, dbUser)
            /\ UNCHANGED <<clients, uloc>>
       ELSE /\ Len(clients) < MaxClients
            /\ clients' = Append(clients, NewClient)
            /\ max_client' = Len(clients) + 1
            /\ uloc' = [uloc EXCEPT ![t].client = Len(clients) + 1]
            /\ upc' = [upc EXCEPT ![t] = "cl_connect"]
            /\ UNCHANGED completed
    /\ UNCHANGED <<bot_token, max_token, max_user_id, connection_mode, dbUser>>
    /\ UNCHANGED notUser

\* user.py:118-119: the attached client has _me and the user has no id
\* (None and 0 are both falsy).
StoresUserId(cur, cl) ==
    /\ cur # 0
    /\ cl[cur].me # NoUserId
    /\ max_user_id \in {NoUserId, 0}

\* user.py:116-127 with bot_client.py:92-104 / user_client.py:257-313: the
\* client's connect returned. The id of the client attached NOW is stored and
\* saved when the user has none. A bot client whose session was closed under
\* it may still have read its answer; a user client's pending request is
\* cancelled by disconnect.
ClientConnected(t, me) ==
    /\ upc[t] = "cl_connect"
    /\ LET c == uloc[t].client
           cl == [clients EXCEPT ![c].connected = TRUE, ![c].me = me] IN
        /\ clients[c].disconnected => clients[c].mode = "bot"
        /\ me \in (IF clients[c].mode = "bot" THEN BotMeIds ELSE UserMeIds)
        /\ clients' = cl
        /\ IF StoresUserId(max_client, cl)
           THEN /\ max_user_id' = cl[max_client].me
                /\ dbUser' = User_save(cl[max_client].me, max_token,
                                       connection_mode, bot_token)
                /\ upc' = [upc EXCEPT ![t] = "conn_save"]
                /\ UNCHANGED completed
           ELSE /\ upc' = [upc EXCEPT ![t] = "idle"]
                /\ completed' = Completion(max_client, dbUser)
                /\ UNCHANGED <<max_user_id, dbUser>>
    /\ uloc' = [uloc EXCEPT ![t] = NoULoc]
    /\ UNCHANGED <<bot_token, max_token, connection_mode, max_client>>
    /\ UNCHANGED notUser

\* user.py:121-127: _save returned and connect completes.
ConnectSaved(t) ==
    /\ upc[t] = "conn_save"
    /\ upc' = [upc EXCEPT ![t] = "idle"]
    /\ completed' = Completion(max_client, dbUser)
    /\ UNCHANGED <<bot_token, max_token, max_user_id, connection_mode, max_client,
                   dbUser, clients, uloc>>
    /\ UNCHANGED notUser

\* user.py:129-131: the client's connect raised; max_client is cleared.
ClientConnectFails(t) ==
    /\ upc[t] = "cl_connect"
    /\ max_client' = 0
    /\ upc' = [upc EXCEPT ![t] = "idle"]
    /\ uloc' = [uloc EXCEPT ![t] = NoULoc]
    /\ completed' = Completion(0, dbUser)
    /\ UNCHANGED <<bot_token, max_token, max_user_id, connection_mode, dbUser, clients>>
    /\ UNCHANGED notUser

\* user_client.py:327-330: disconnect cancelled the request the client's
\* connect waits for; CancelledError is no Exception and leaves connect
\* without passing user.py:129-131.
ClientConnectCancelled(t) ==
    /\ upc[t] = "cl_connect"
    /\ clients[uloc[t].client].disconnected
    /\ clients[uloc[t].client].mode = "user"
    /\ upc' = [upc EXCEPT ![t] = "idle"]
    /\ uloc' = [uloc EXCEPT ![t] = NoULoc]
    /\ UNCHANGED <<bot_token, max_token, max_user_id, connection_mode, max_client,
                   dbUser, clients, completed>>
    /\ UNCHANGED notUser

\* user.py:405-409: disconnect with a client attached.
Disconnect(t) ==
    /\ upc[t] = "idle"
    /\ max_client # 0
    /\ clients' = Client_disconnect(max_client)
    /\ upc' = [upc EXCEPT ![t] = "disc"]
    /\ UNCHANGED <<bot_token, max_token, max_user_id, connection_mode, max_client,
                   dbUser, uloc, completed>>
    /\ UNCHANGED notUser

\* user.py:410-412
DisconnectDone(t) ==
    /\ upc[t] = "disc"
    /\ max_client' = 0
    /\ upc' = [upc EXCEPT ![t] = "idle"]
    /\ UNCHANGED <<bot_token, max_token, max_user_id, connection_mode, dbUser,
                   clients, uloc, completed>>
    /\ UNCHANGED notUser

\* user.py:468-475: logout; with a client attached its disconnect is
\* awaited first, otherwise the credentials are cleared and saved.
Logout(t) ==
    /\ upc[t] = "idle"
    /\ IF max_client # 0
       THEN /\ clients' = Client_disconnect(max_client)
            /\ upc' = [upc EXCEPT ![t] = "lo_disc"]
            /\ UNCHANGED <<bot_token, max_token, max_user_id, connection_mode, dbUser>>
       ELSE /\ bot_token' = ""
            /\ max_token' = ""
            /\ max_user_id' = NoUserId
            /\ connection_mode' = ""
            /\ dbUser' = User_save(NoUserId, "", "", "")
            /\ UNCHANGED <<clients, upc>>
    /\ UNCHANGED <<max_client, uloc, completed>>
    /\ UNCHANGED notUser

\* user.py:412 and 471-475: the disconnect of logout returned.
LogoutDisconnected(t) ==
    /\ upc[t] = "lo_disc"
    /\ max_client' = 0
    /\ bot_token' = ""
    /\ max_token' = ""
    /\ max_user_id' = NoUserId
    /\ connection_mode' = ""
    /\ dbUser' = User_save(NoUserId, "", "", "")
    /\ upc' = [upc EXCEPT ![t] = "idle"]
    /\ UNCHANGED <<clients, uloc, completed>>
    /\ UNCHANGED notUser

NextUser ==
    \/ \E t \in UTasks, tok \in BotTokens : LoginBot(t, tok)
    \/ \E t \in UTasks, tok \in AuthTokens, uid \in LoginUserIds : LoginUser(t, tok, uid)
    \/ \E t \in UTasks : Connect(t)
    \/ \E t \in UTasks : ConnectAfterDisconnect(t)
    \/ \E t \in UTasks, me \in BotMeIds \cup UserMeIds : ClientConnected(t, me)
    \/ \E t \in UTasks : ConnectSaved(t)
    \/ \E t \in UTasks : ClientConnectFails(t)
    \/ \E t \in UTasks : ClientConnectCancelled(t)
    \/ \E t \in UTasks : Disconnect(t)
    \/ \E t \in UTasks : DisconnectDone(t)
    \/ \E t \in UTasks : Logout(t)
    \/ \E t \in UTasks : LogoutDisconnected(t)

InitStartup == InitBridge /\ InitMatrix /\ InitSeq /\ InitExtra /\ InitUserStartup

SpecUser == InitStartup /\ [][NextUser]_vars

\* C7: at most one live client per session: every client that was ever
\* connected and is not the session's current max_client has been
\* disconnected.
C7_AtMostOneLiveClient ==
    \A c \in DOMAIN clients :
        (clients[c].connected /\ c # max_client) => clients[c].disconnected

UserIdle == \A t \in UTasks : upc[t] = "idle"

\* C8: after any sequence of login_bot, login_user and logout, bot_token and
\* max_token are never both set, and is_logged_in is true exactly when one of
\* them is set.
C8_AtMostOneMode ==
    UserIdle =>
        /\ ~(bot_token # "" /\ max_token # "")
        /\ is_logged_in <=> (bot_token # "" \/ max_token # "")

\* C9: whenever connect completes with a client attached, max_user_id is
\* non-null in the persisted user row.
C9_ConnectedHasUserId ==
    (completed.done /\ completed.attached) => completed.row_user_id # NoUserId

(***************************************************************************)
(* SpecSeq: the seq numbers of one UserMaxClient object. Python integers   *)
(* do not overflow; MaxSeq bounds the run.                                 *)
(***************************************************************************)
MaxSeq == 4
MaxWire == 4

next_seq_NoIncrement(s) == s

\* user_client.py:175-177: _next_seq, the new value of _seq, which it returns;
\* there is no await in it.
next_seq(s) == s + 1

\* user_client.py:257-261: connect opens the WebSocket.
WsConnect ==
    /\ ~wsOpen
    /\ wsOpen' = TRUE
    /\ UNCHANGED <<seq, pending, allocated, wire>>
    /\ UNCHANGED notSeq

\* user_client.py:220-239 with 186-208: _send_and_wait takes a seq, registers
\* the future and sends the request; without an open socket _send_raw raises
\* and the future is dropped again, the seq stays used.
SendAndWait ==
    /\ seq < MaxSeq
    /\ Len(wire) < MaxWire
    /\ seq' = next_seq(seq)
    /\ allocated' = Append(allocated, seq')
    /\ IF wsOpen
       THEN /\ pending' = pending \cup {seq'}
            /\ wire' = Append(wire, [cmd |-> "request", seq |-> seq'])
       ELSE UNCHANGED <<pending, wire>>
    /\ UNCHANGED wsOpen
    /\ UNCHANGED notSeq

\* user_client.py:210-218 with 186-208: _send without seq (reactions, read
\* marks, typing): _send_raw raises before taking a seq when the socket is
\* not open.
Send ==
    /\ wsOpen
    /\ seq < MaxSeq
    /\ Len(wire) < MaxWire
    /\ seq' = next_seq(seq)
    /\ allocated' = Append(allocated, seq')
    /\ wire' = Append(wire, [cmd |-> "request", seq |-> seq'])
    /\ UNCHANGED <<pending, wsOpen>>
    /\ UNCHANGED notSeq

\* user_client.py:519-537: a request of the server (heartbeat, incoming
\* message) is answered with the server's seq; no seq is taken.
AnswerServer(srvSeq) ==
    /\ wsOpen
    /\ Len(wire) < MaxWire
    /\ wire' = Append(wire, [cmd |-> "response", seq |-> srvSeq])
    /\ UNCHANGED <<seq, pending, wsOpen, allocated>>
    /\ UNCHANGED notSeq

\* user_client.py:556-570 and 233-239: the response (or error, or timeout) of
\* a pending request removes its future.
Resolve(s) ==
    /\ s \in pending
    /\ pending' = pending \ {s}
    /\ UNCHANGED <<seq, wsOpen, allocated, wire>>
    /\ UNCHANGED notSeq

\* user_client.py:324-338: disconnect cancels the pending futures and closes
\* the socket.
WsDisconnect ==
    /\ wsOpen
    /\ wsOpen' = FALSE
    /\ pending' = {}
    /\ UNCHANGED <<seq, allocated, wire>>
    /\ UNCHANGED notSeq

NextSeq ==
    \/ WsConnect
    \/ SendAndWait
    \/ Send
    \/ \E srvSeq \in 0..MaxSeq : AnswerServer(srvSeq)
    \/ \E s \in 1..MaxSeq : Resolve(s)
    \/ WsDisconnect

SpecSeq == Init /\ [][NextSeq]_vars

Requests == {i \in DOMAIN wire : wire[i].cmd = "request"}

\* C10: within one UserMaxClient every client-originated request gets a seq
\* strictly greater than every seq allocated before it, and no two requests
\* share a seq.
C10_SeqStrictlyIncreasing ==
    /\ \A i, j \in DOMAIN allocated : i < j => allocated[i] < allocated[j]
    /\ \A i, j \in Requests : i < j => wire[i].seq < wire[j].seq
    /\ \A i \in Requests : \A k \in DOMAIN allocated :
          allocated[k] = wire[i].seq =>
              \A m \in 1..(k - 1) : allocated[m] < wire[i].seq

\* C10 witness: three requests on the wire, one seq used up while the socket
\* was closed, and an answer to the server that carries a seq a request of
\* the client has.
C10_Witness ==
    /\ Cardinality(Requests) >= 3
    /\ Len(allocated) > Cardinality(Requests)
    /\ \E i \in DOMAIN wire, j \in Requests :
          wire[i].cmd = "response" /\ wire[i].seq = wire[j].seq

(***************************************************************************)
(* SpecRelay: SpecMsg with edits in both directions. SpecDup: the upstream *)
(* path with events that are dispatched a second time.                     *)
(***************************************************************************)
MaxRedeliver == 1

\* db/message.py:52-56: Message.get_by_mxid
Message_get_by_mxid(table, mxid) == {i \in DOMAIN table : table[i].mxid = mxid}

\* The event an m.replace event replaces.
TargetOf(evt) == (CHOOSE r \in replaces : r.evt = evt).target

\* The events of a room that stand for a Max message: those the bridge sent
\* for a Max message and those it relayed to Max.
Relayed ==
    {i \in DOMAIN mxEvents : mxEvents[i].origin = "bridge" /\ \A e \in mxEdits : e.evt # i}
    \cup {sm.evt : sm \in sent}

\* matrix.py:134-153 and portal.py:210-231: a Matrix event with an m.replace
\* relation arrives for a cached portal; without a Max client it is dropped,
\* otherwise the row of the target is looked up (awaited).
MatrixEdit(x, s, target) ==
    /\ pc[x] = "idle"
    /\ target \in Relayed
    /\ by_mxid[mxEvents[target].room] # 0
    /\ Len(mxEvents) < MaxMxEvents
    /\ LET r == mxEvents[target].room
           e == Len(mxEvents) + 1 IN
        /\ mxEvents' = Append(mxEvents, [room |-> r, origin |-> "user", chat |-> 0,
                                         max_msg_id |-> 0])
        /\ replaces' = replaces \cup {[evt |-> e, target |-> target]}
        /\ IF s \in Sessions
           THEN /\ loc' = [loc EXCEPT ![x] =
                             [NoLoc EXCEPT !.evt = e, !.sender = s, !.room = r,
                                           !.portal = by_mxid[r],
                                           !.chat = portals[by_mxid[r]].max_chat_id]]
                /\ pc' = Goto(x, "hmx_edit_db")
           ELSE UNCHANGED <<loc, pc>>
    /\ UNCHANGED <<portals, by_max_chat_id, by_mxid, dbPortal, dbMessage, rooms,
                   maxNext, inbox, sent, restarts>>
    /\ UNCHANGED <<edits, editInbox, mxEdits, redelivered>>
    /\ UNCHANGED notRelay

\* portal.py:227-241: with a row for the target the edit is sent to Max and
\* the handler returns after it; without one the handler goes on to
\* send_message.
EditLookup(x) ==
    /\ pc[x] = "hmx_edit_db"
    /\ LET rows == Message_get_by_mxid(dbMessage, TargetOf(loc[x].evt)) IN
        IF rows # {}
        THEN /\ loc' = SetLoc(x, "msg", dbMessage[CHOOSE i \in rows : TRUE].max_msg_id)
             /\ pc' = Goto(x, "hmx_edit")
        ELSE /\ pc' = Goto(x, "hmx_send")
             /\ UNCHANGED loc
    /\ UNCHANGED <<portals, by_max_chat_id, by_mxid, dbPortal, dbMessage, rooms,
                   mxEvents, maxNext, inbox, sent, restarts>>
    /\ UNCHANGED relayVars
    /\ UNCHANGED notRelay

\* portal.py:235-236: Max accepts edit_message and tells the member sessions
\* message_edited, possibly the editor's own.
MaxAcceptsEdit(x, rcpt) ==
    /\ pc[x] = "hmx_edit"
    /\ \A u \in rcpt : Len(editInbox[u]) < MaxInbox
    /\ edits' = edits \cup {[chat |-> loc[x].chat, msg |-> loc[x].msg, evt |-> loc[x].evt]}
    /\ editInbox' = [u \in Sessions |->
                       IF u \in rcpt
                       THEN Append(editInbox[u], [chat |-> loc[x].chat, msg |-> loc[x].msg])
                       ELSE editInbox[u]]
    /\ pc' = Goto(x, "idle")
    /\ loc' = [loc EXCEPT ![x] = NoLoc]
    /\ UNCHANGED <<portals, by_max_chat_id, by_mxid, dbPortal, dbMessage, rooms,
                   mxEvents, maxNext, inbox, sent, restarts>>
    /\ UNCHANGED <<replaces, mxEdits, redelivered>>
    /\ UNCHANGED notRelay

\* user.py:428-431 and 442-447: message_edited with a message id, for a
\* cached portal: handle_max_edit awaits the row of the message.
OnMaxEdited(u) ==
    /\ pc[u] = "idle"
    /\ editInbox[u] # <<>>
    /\ by_max_chat_id[Head(editInbox[u]).chat] # 0
    /\ LET ev == Head(editInbox[u]) IN
        /\ editInbox' = [editInbox EXCEPT ![u] = Tail(@)]
        /\ loc' = [loc EXCEPT ![u] = [NoLoc EXCEPT !.chat = ev.chat, !.msg = ev.msg,
                                                   !.portal = by_max_chat_id[ev.chat]]]
        /\ pc' = Goto(u, "hme_db")
    /\ UNCHANGED <<portals, by_max_chat_id, by_mxid, dbPortal, dbMessage, rooms,
                   mxEvents, maxNext, inbox, sent, restarts>>
    /\ UNCHANGED <<replaces, edits, mxEdits, redelivered>>
    /\ UNCHANGED notRelay

\* portal.py:184-197: handle_max_edit: without a row or a room nothing is
\* done; otherwise an edit of the row's event is sent to the room.
HandleMaxEdit(u) ==
    /\ pc[u] = "hme_db"
    /\ IF \/ Message_get_by_max_msg_id(dbMessage, loc[u].chat, loc[u].msg) = {}
          \/ portals[loc[u].portal].mxid = 0
       THEN UNCHANGED <<mxEvents, mxEdits>>
       ELSE /\ Len(mxEvents) < MaxMxEvents
            /\ mxEvents' = Append(mxEvents, [room |-> portals[loc[u].portal].mxid,
                                             origin |-> "bridge", chat |-> loc[u].chat,
                                             max_msg_id |-> loc[u].msg])
            /\ mxEdits' = mxEdits \cup {[evt |-> Len(mxEvents) + 1, chat |-> loc[u].chat,
                                         msg |-> loc[u].msg]}
    /\ pc' = Goto(u, "idle")
    /\ loc' = [loc EXCEPT ![u] = NoLoc]
    /\ UNCHANGED <<portals, by_max_chat_id, by_mxid, dbPortal, dbMessage, rooms,
                   maxNext, inbox, sent, restarts>>
    /\ UNCHANGED <<replaces, edits, editInbox, redelivered>>
    /\ UNCHANGED notRelay

\* Matrix events that carry a Max message into the room (no edits).
BridgedEvents(c, m) ==
    {i \in DOMAIN mxEvents :
        /\ mxEvents[i].origin = "bridge"
        /\ mxEvents[i].chat = c
        /\ mxEvents[i].max_msg_id = m
        /\ \A e \in mxEdits : e.evt # i}

\* No handler holds the message and no session has it queued.
NotInFlight(c, m) ==
    /\ \A t \in Tasks : pc[t] # "idle" => ~(loc[t].chat = c /\ loc[t].msg = m)
    /\ \A u \in Sessions : \A i \in DOMAIN inbox[u] :
          ~(inbox[u][i].chat = c /\ inbox[u][i].msg = m)

\* bot_client.py:123-144, user_client.py:492-510: the upstream delivers a
\* message_created it has delivered before (at-least-once), here after the
\* message was bridged.
Redeliver(u, c, m) ==
    /\ m \in 1..(maxNext - 1)
    /\ BridgedEvents(c, m) # {}
    /\ NotInFlight(c, m)
    /\ Len(inbox[u]) < MaxInbox
    /\ Cardinality(redelivered) < MaxRedeliver
    /\ inbox' = [inbox EXCEPT ![u] = Append(@, [chat |-> c, msg |-> m])]
    /\ redelivered' = redelivered \cup
          {[chat |-> c, msg |-> m, events |-> Cardinality(BridgedEvents(c, m)),
            rows |-> Cardinality(Message_get_by_max_msg_id(dbMessage, c, m))]}
    /\ UNCHANGED <<portals, by_max_chat_id, by_mxid, dbPortal, dbMessage, rooms,
                   mxEvents, maxNext, pc, loc, sent, restarts>>
    /\ UNCHANGED <<replaces, edits, editInbox, mxEdits>>
    /\ UNCHANGED notRelay

NextRelay ==
    \/ NextMsg
    \/ \E x \in MxWorkers, s \in MxUsers, target \in 1..MaxMxEvents : MatrixEdit(x, s, target)
    \/ \E x \in MxWorkers : EditLookup(x)
    \/ \E x \in MxWorkers, rcpt \in SUBSET Sessions : MaxAcceptsEdit(x, rcpt)
    \/ \E u \in Sessions : OnMaxEdited(u)
    \/ \E u \in Sessions : HandleMaxEdit(u)

SpecRelay == InitMsg /\ [][NextRelay]_vars

\* SpecDup: the upstream path with duplicates.
NextDup ==
    \/ \E c \in Chats, withId \in BOOLEAN, rcpt \in SUBSET Sessions :
          MaxUserSends(c, withId, rcpt)
    \/ \E u \in Sessions : OnMaxEvent(u)
    \/ \E u \in Sessions : Dedup(u)
    \/ \E u \in Sessions : SendToMatrix(u)
    \/ \E u \in Sessions : InsertUp(u)
    \/ \E u \in Sessions, c \in Chats, m \in 1..MaxMaxMsgs : Redeliver(u, c, m)

SpecDup == InitMsg /\ [][NextDup]_vars

ReplaceEvents == {r.evt : r \in replaces}

\* C11: a Matrix event with an m.replace relation is never relayed with
\* send_message and gets no row in the message table.
C11_EditNeverSends ==
    /\ \A x \in MxWorkers : pc[x] = "hmx_send" => loc[x].evt \notin ReplaceEvents
    /\ \A s \in sent : s.evt \notin ReplaceEvents
    /\ \A i \in DOMAIN dbMessage : dbMessage[i].mxid \notin ReplaceEvents

\* C12: after the bridge relayed a Matrix edit as edit_message(M), the
\* message_edited(M) that follows produces no Matrix edit event.
C12_EditEchoNotBridged ==
    \A e \in mxEdits : ~\E d \in edits : d.chat = e.chat /\ d.msg = e.msg

\* C14: after a message_created with a non-empty id was bridged, dispatching
\* it again adds no Matrix event and no message row.
C14_DuplicateAddsNothing ==
    \A rd \in redelivered :
        /\ Cardinality(BridgedEvents(rd.chat, rd.msg)) = rd.events
        /\ Cardinality(Message_get_by_max_msg_id(dbMessage, rd.chat, rd.msg)) = rd.rows

\* C14 witness: a duplicate was dispatched and its handling has finished.
C14_Witness ==
    /\ redelivered # {}
    /\ Settled
    /\ \A rd \in redelivered : rd.events >= 1 /\ rd.rows = 1
(***************************************************************************)
(* BotMaxClient._poll_loop and _handle_raw_update (max/bot_client.py).     *)
(***************************************************************************)
MaxUpdates == 3
MaxRetries == 2

\* An update decodes to a MaxEvent ("ok"), has an update_type outside
\* EventType ("unknown", bot_client.py:150-154), or makes a constructor of
\* _handle_raw_update raise ("malformed": a null sender name, a non-dict
\* message; bot_client.py:156-206 run outside any try).
UpdateKinds == {"ok", "unknown", "malformed"}

\* Max records an update for the bot.
ServerUpdate(kind) ==
    /\ Len(updates) < MaxUpdates
    /\ updates' = Append(updates, kind)
    /\ UNCHANGED <<marker, batch, dispatched, handling, bpc, running, got401, after401, fault, sleepSecs>>
    /\ UNCHANGED notPoll

PositionsAfter(m) == [i \in 1..(Len(updates) - m) |-> m + i]

AfterUpdate(rest) == IF rest = <<>> THEN "request" ELSE "updates"

Issued == IF got401 THEN after401 + 1 ELSE after401

\* bot_client.py:126-134: GET /updates answers 200 with the updates after the
\* marker and the new marker; the marker is stored before the first update
\* is handled.
PollUpdates ==
    /\ bpc = "request" /\ running
    /\ Issued <= MaxRetries
    /\ after401' = Issued
    /\ batch' = PositionsAfter(marker)
    /\ marker' = IF Len(updates) > 0 THEN Len(updates) ELSE marker
    /\ bpc' = AfterUpdate(batch')
    /\ UNCHANGED <<updates, dispatched, handling, running, got401, fault, sleepSecs>>
    /\ UNCHANGED notPoll

\* The Retry-After header of a 429 answer, in seconds (bot_client.py:80).
RetryAfters == {1, 7}

SleepSecs_AlwaysFive(kind, ra) == 5

\* bot_client.py:139-144: the loop sleeps retry_after seconds after a
\* RateLimitError and 5 seconds after any other exception.
SleepSecs(kind, ra) == IF kind = "rate_limit" THEN ra ELSE 5

\* bot_client.py:73-88 and 137-144: the request raises AuthError (401),
\* RateLimitError (429) or MaxAPIError (500); the loop logs and sleeps.
PollError(status) ==
    /\ bpc = "request" /\ running
    /\ Issued <= MaxRetries
    /\ after401' = Issued
    /\ got401' = (got401 \/ status = 401)
    /\ bpc' = "sleep"
    /\ \E ra \in RetryAfters :
          /\ fault' = IF status = 429
                      THEN [kind |-> "rate_limit", retry_after |-> ra]
                      ELSE [kind |-> "error", retry_after |-> 0]
          /\ sleepSecs' = SleepSecs(fault'.kind, ra)
    /\ UNCHANGED <<updates, marker, batch, dispatched, handling, running>>
    /\ UNCHANGED notPoll

\* bot_client.py:142-144: the sleep ends and the loop requests again.
SleepDone ==
    /\ bpc = "sleep"
    /\ bpc' = "request"
    /\ sleepSecs' = 0
    /\ UNCHANGED <<updates, marker, batch, dispatched, handling, running, got401, after401, fault>>
    /\ UNCHANGED notPoll

\* bot_client.py:146-215 and base_client.py:96-100: the update decodes and
\* on_event is awaited.
HandleRawUpdate ==
    /\ bpc = "updates" /\ batch # <<>>
    /\ updates[Head(batch)] = "ok"
    /\ dispatched' = Append(dispatched, Head(batch))
    /\ handling' = handling \cup {Head(batch)}
    /\ bpc' = "on_event"
    /\ UNCHANGED <<updates, marker, batch, running, got401, after401, fault, sleepSecs>>
    /\ UNCHANGED notPoll

HandlerOutcomes == {"returns", "raises"}

dispatch_event_NoCatch(outcome) == outcome

\* base_client.py:96-102: what _dispatch_event gives its caller: it returns
\* when on_event returned, and also when on_event raised an Exception, which
\* it logs.
dispatch_event(outcome) == "returns"

\* bot_client.py:135-136 after the await of _handle_raw_update: the loop goes
\* on with the next update; an exception would leave the for loop and reach
\* the handler of bot_client.py:142-144.
OnEventDone(outcome) ==
    /\ bpc = "on_event"
    /\ handling' = handling \ {Head(batch)}
    /\ IF dispatch_event(outcome) = "returns"
       THEN /\ batch' = Tail(batch)
            /\ bpc' = AfterUpdate(batch')
            /\ sleepSecs' = sleepSecs
       ELSE /\ batch' = <<>>
            /\ bpc' = "sleep"
            /\ sleepSecs' = SleepSecs("error", 0)
    /\ fault' = IF outcome = "raises" THEN [kind |-> "handler", retry_after |-> 0] ELSE fault
    /\ UNCHANGED <<updates, marker, dispatched, running, got401, after401>>
    /\ UNCHANGED notPoll

\* bot_client.py:150-154: an unknown update_type is logged and dropped.
UnknownUpdate ==
    /\ bpc = "updates" /\ batch # <<>>
    /\ updates[Head(batch)] = "unknown"
    /\ batch' = Tail(batch)
    /\ bpc' = AfterUpdate(batch')
    /\ UNCHANGED <<updates, marker, dispatched, handling, running, got401, after401, fault, sleepSecs>>
    /\ UNCHANGED notPoll

\* bot_client.py:135-136 and 142-144: _handle_raw_update raises; the
\* exception leaves the for loop, the rest of the response is dropped and the
\* loop sleeps.
DecodeFails ==
    /\ bpc = "updates" /\ batch # <<>>
    /\ updates[Head(batch)] = "malformed"
    /\ batch' = <<>>
    /\ bpc' = "sleep"
    /\ fault' = [kind |-> "decode", retry_after |-> 0]
    /\ sleepSecs' = SleepSecs("decode", 0)
    /\ UNCHANGED <<updates, marker, dispatched, handling, running, got401, after401>>
    /\ UNCHANGED notPoll

\* bot_client.py:106-116 and 137-138: disconnect() cancels the task at the
\* await it is suspended in.
BotDisconnect ==
    /\ bpc \in {"request", "on_event", "sleep"}
    /\ running' = FALSE
    /\ bpc' = "stopped"
    /\ batch' = <<>>
    /\ handling' = {}
    /\ sleepSecs' = 0
    /\ UNCHANGED <<updates, marker, dispatched, got401, after401, fault>>
    /\ UNCHANGED notPoll

NextPoll ==
    \/ \E kind \in UpdateKinds : ServerUpdate(kind)
    \/ PollUpdates
    \/ \E status \in {401, 429, 500} : PollError(status)
    \/ SleepDone
    \/ HandleRawUpdate
    \/ \E outcome \in HandlerOutcomes : OnEventDone(outcome)
    \/ UnknownUpdate
    \/ DecodeFails
    \/ BotDisconnect

SpecPoll == Init /\ [][NextPoll]_vars

Range(f) == {f[i] : i \in DOMAIN f}

\* C13: no update of a response is skipped when an earlier update of the same
\* response fails: whenever the loop is between two requests, every decodable
\* update up to the marker has been handed to on_event.
C13_NoUpdateSkipped ==
    bpc \in {"request", "sleep"} =>
        \A i \in 1..marker : updates[i] = "ok" => i \in Range(dispatched)

C15_NoRequestAfter401 == after401 = 0

(***************************************************************************)
(* ProvisioningAPI (web/provisioning.py): the endpoints of one user. At    *)
(* most one step request is suspended in login_bot / login_user at a time. *)
(***************************************************************************)
MaxLogins == 2
MaxOpened == 2

\* An Authorization value is a sequence of pieces: the text "Bearer ", the
\* shared secret, or some other text.
Secret == <<"secret">>
Headers == {<<>>, Secret, <<"Bearer ", "secret">>, <<"other">>,
            <<"Bearer ", "other">>, <<"secret", "Bearer ">>}

NotBearer(w) == w # "Bearer "

\* provisioning.py:51-61: every occurrence of "Bearer " is removed, then the
\* rest is compared with the shared secret. TRUE when the request passes.
check_auth(h) == SelectSeq(h, NotBearer) = Secret

Flows == {"bot_token", "phone", "qr", "unknown"}
Outcomes == {"ok", "ok_offline", "no_token", "fail"}
\* A submitted field: 0 is empty, 1 a value Max accepts, 2 a value Max rejects.
Inputs == {0, 1, 2}

ReplyOf(ep, h, status, type, conn, eff) ==
    [ep |-> ep, header |-> h, status |-> status, type |-> type,
     connected |-> conn, effect |-> eff]

Unauthorized(ep, h) == ReplyOf(ep, h, 401, "error", provUser.connected, FALSE)

Without(f, k) == [x \in DOMAIN f \ {k} |-> f[x]]

\* provisioning.py:68-92
v3_get_login_flows(h) ==
    /\ lastReply' = IF check_auth(h)
                    THEN ReplyOf("v3_flows", h, 200, "flows", provUser.connected, FALSE)
                    ELSE Unauthorized("v3_flows", h)
    /\ UNCHANGED <<login_sessions, nextLogin, provUser, opened, inflight>>
    /\ UNCHANGED notProv

\* provisioning.py:94-177
v3_start_login(h, flow, outcome) ==
    /\ nextLogin <= MaxLogins
    /\ opened < MaxOpened
    /\ flow # "qr" => outcome = "ok"
    /\ outcome \in {"ok", "fail"}
    /\ IF ~check_auth(h)
       THEN /\ lastReply' = Unauthorized("v3_start", h)
            /\ UNCHANGED <<login_sessions, nextLogin, opened>>
       ELSE IF flow \in {"bot_token", "phone"}
       THEN /\ login_sessions' = login_sessions @@
                   (nextLogin :> [flow |-> flow,
                                  step |-> IF flow = "phone" THEN "phone_input" ELSE "token_input",
                                  client |-> FALSE])
            /\ nextLogin' = nextLogin + 1
            /\ lastReply' = ReplyOf("v3_start", h, 200, "user_input", provUser.connected, TRUE)
            /\ UNCHANGED opened
       ELSE IF flow = "qr"
       THEN /\ opened' = opened + 1
            /\ IF outcome = "ok"
               THEN /\ login_sessions' = login_sessions @@
                           (nextLogin :> [flow |-> "qr", step |-> "qr_scan", client |-> TRUE])
                    /\ nextLogin' = nextLogin + 1
                    /\ lastReply' = ReplyOf("v3_start", h, 200, "display_and_wait",
                                            provUser.connected, TRUE)
               ELSE /\ lastReply' = ReplyOf("v3_start", h, 500, "error", provUser.connected, TRUE)
                    /\ UNCHANGED <<login_sessions, nextLogin>>
       ELSE /\ lastReply' = ReplyOf("v3_start", h, 400, "error", provUser.connected, FALSE)
            /\ UNCHANGED <<login_sessions, nextLogin, opened>>
    /\ UNCHANGED <<provUser, inflight>>
    /\ UNCHANGED notProv

StepError(h, status) == ReplyOf("v3_step", h, status, "error", provUser.connected, FALSE)
Waiting(h) == ReplyOf("v3_step", h, 200, "display_and_wait", provUser.connected, FALSE)

\* provisioning.py:179-320, up to the await of login_bot / login_user, whose
\* first statements store the token (user.py:455-456, 462-464).
v3_login_step(h, id, input, outcome) ==
    /\ inflight = NoFlight
    /\ opened < MaxOpened
    /\ IF ~check_auth(h)
       THEN /\ lastReply' = Unauthorized("v3_step", h)
            /\ UNCHANGED <<login_sessions, provUser, opened, inflight>>
       ELSE IF id \notin DOMAIN login_sessions
       THEN /\ lastReply' = StepError(h, 404)
            /\ UNCHANGED <<login_sessions, provUser, opened, inflight>>
       ELSE IF login_sessions[id].step = "token_input"
       THEN IF input = 0
            THEN /\ lastReply' = StepError(h, 400)
                 /\ UNCHANGED <<login_sessions, provUser, opened, inflight>>
            ELSE /\ provUser' = [provUser EXCEPT !.bot_token = input]
                 /\ inflight' = [login_id |-> id, header |-> h, token |-> input, connects |-> input = 1]
                 /\ UNCHANGED <<login_sessions, opened, lastReply>>
       ELSE IF login_sessions[id].step = "phone_input"
       THEN IF input = 0
            THEN /\ lastReply' = StepError(h, 400)
                 /\ UNCHANGED <<login_sessions, provUser, opened, inflight>>
            ELSE /\ opened' = opened + 1
                 /\ IF outcome \in {"ok", "ok_offline"}
                    THEN /\ login_sessions' = [login_sessions EXCEPT ![id].step = "code_input",
                                                                     ![id].client = TRUE]
                         /\ lastReply' = ReplyOf("v3_step", h, 200, "user_input",
                                                 provUser.connected, TRUE)
                    ELSE /\ lastReply' = ReplyOf("v3_step", h, 500, "error",
                                                 provUser.connected, TRUE)
                         /\ UNCHANGED login_sessions
                 /\ UNCHANGED <<provUser, inflight>>
       ELSE IF login_sessions[id].step = "code_input"
       THEN IF input = 0
            THEN /\ lastReply' = StepError(h, 400)
                 /\ UNCHANGED <<login_sessions, provUser, opened, inflight>>
            ELSE IF outcome \in {"fail", "no_token"}
            THEN /\ lastReply' = StepError(h, 401)
                 /\ UNCHANGED <<login_sessions, provUser, opened, inflight>>
            ELSE /\ provUser' = [provUser EXCEPT !.max_token = 1]
                 /\ inflight' = [login_id |-> id, header |-> h, token |-> 1, connects |-> outcome = "ok"]
                 /\ UNCHANGED <<login_sessions, opened, lastReply>>
       ELSE IF outcome \in {"fail", "no_token"}
            THEN /\ lastReply' = Waiting(h)
                 /\ UNCHANGED <<login_sessions, provUser, opened, inflight>>
            ELSE /\ provUser' = [provUser EXCEPT !.max_token = 1]
                 /\ inflight' = [login_id |-> id, header |-> h, token |-> 1, connects |-> outcome = "ok"]
                 /\ UNCHANGED <<login_sessions, opened, lastReply>>
    /\ UNCHANGED nextLogin
    /\ UNCHANGED notProv

\* provisioning.py:204-213, 277-283, 306-312 after the await: login_bot /
\* login_user returned (User.connect swallows a failed connect and leaves
\* max_client None, user.py:115-131) or raised from _save; when it returned
\* the session is deleted and the answer is complete.
LoginReturns(saved) ==
    /\ inflight # NoFlight
    /\ inflight' = NoFlight
    /\ IF saved
       THEN /\ provUser' = [provUser EXCEPT !.connected = inflight.connects]
            /\ login_sessions' = Without(login_sessions, inflight.login_id)
            /\ lastReply' = ReplyOf("v3_step", inflight.header, 200, "complete", inflight.connects, TRUE)
       ELSE /\ lastReply' = ReplyOf("v3_step", inflight.header,
                                    IF login_sessions[inflight.login_id].flow = "bot_token"
                                    THEN 401 ELSE 500,
                                    "error", provUser.connected, TRUE)
            /\ UNCHANGED <<login_sessions, provUser>>
    /\ UNCHANGED <<nextLogin, opened>>
    /\ UNCHANGED notProv

\* provisioning.py:324-367: the WebSocket QR login; the handler does not
\* call _check_auth.
v1_qr_login(h, outcome) ==
    /\ opened < MaxOpened
    /\ opened' = opened + 1
    /\ IF outcome \in {"ok", "ok_offline"}
       THEN /\ provUser' = [provUser EXCEPT !.max_token = 1, !.connected = (outcome = "ok")]
            /\ lastReply' = ReplyOf("v1_qr", h, 101, "success", outcome = "ok", TRUE)
       ELSE /\ lastReply' = ReplyOf("v1_qr", h, 101, "failure", provUser.connected, TRUE)
            /\ UNCHANGED provUser
    /\ UNCHANGED <<login_sessions, nextLogin, inflight>>
    /\ UNCHANGED notProv

\* provisioning.py:369-379
v1_send_password(h) ==
    /\ lastReply' = IF check_auth(h)
                    THEN ReplyOf("v1_send_password", h, 501, "error", provUser.connected, FALSE)
                    ELSE Unauthorized("v1_send_password", h)
    /\ UNCHANGED <<login_sessions, nextLogin, provUser, opened, inflight>>
    /\ UNCHANGED notProv

LoggedOut == [bot_token |-> 0, max_token |-> 0, connected |-> FALSE]

\* provisioning.py:381-394 and user.py:468-475
v1_logout(h) ==
    /\ IF check_auth(h)
       THEN /\ provUser' = LoggedOut
            /\ lastReply' = ReplyOf("v1_logout", h, 200, "success", FALSE, provUser # LoggedOut)
       ELSE /\ lastReply' = Unauthorized("v1_logout", h)
            /\ UNCHANGED provUser
    /\ UNCHANGED <<login_sessions, nextLogin, opened, inflight>>
    /\ UNCHANGED notProv

\* provisioning.py:396-414
v1_status(h) ==
    /\ lastReply' = IF check_auth(h)
                    THEN ReplyOf("v1_status", h, 200, "status", provUser.connected, FALSE)
                    ELSE Unauthorized("v1_status", h)
    /\ UNCHANGED <<login_sessions, nextLogin, provUser, opened, inflight>>
    /\ UNCHANGED notProv

NextProv ==
    \/ \E h \in Headers : v3_get_login_flows(h)
    \/ \E h \in Headers, flow \in Flows, o \in Outcomes : v3_start_login(h, flow, o)
    \/ \E h \in Headers, id \in 1..MaxLogins, input \in Inputs, o \in Outcomes :
          v3_login_step(h, id, input, o)
    \/ \E saved \in BOOLEAN : LoginReturns(saved)
    \/ \E h \in Headers, o \in Outcomes : v1_qr_login(h, o)
    \/ \E h \in Headers : v1_send_password(h)
    \/ \E h \in Headers : v1_logout(h)
    \/ \E h \in Headers : v1_status(h)

SpecProv == Init /\ [][NextProv]_vars

\* A step request that entered login_bot / login_user gets its answer
\* (the event loop resumes the handler); nothing else runs without a request.
SpecProvFair == SpecProv /\ WF_vars(\E saved \in BOOLEAN : LoginReturns(saved))

\* C16: the step endpoint answers {type: complete} only if the login ended
\* with the user's client connected.
C16_CompleteOnlyIfConnected == lastReply.type = "complete" => lastReply.connected

\* The claim's reading of the header: an optional leading "Bearer " is
\* removed and the rest must equal the shared secret.
StripPrefix(h) == IF h # <<>> /\ Head(h) = "Bearer " THEN Tail(h) ELSE h
Authorized(h) == StripPrefix(h) = Secret

\* C17: a request whose Authorization differs from the shared secret is
\* answered 401 and creates no session, opens no Max client and changes no
\* user.
C17_UnauthorizedRejected ==
    (lastReply.ep # "" /\ ~Authorized(lastReply.header)) =>
        (lastReply.status = 401 /\ ~lastReply.effect)

\* C18: every login session that was created is eventually discarded.
C18_SessionEventuallyDiscarded ==
    \A id \in 1..MaxLogins :
        (id \in DOMAIN login_sessions) ~> (id \notin DOMAIN login_sessions)

(***************************************************************************)
(* MaxBridge._periodic_license_check (__main__.py:105-130). Time is in     *)
(* hours; a sleep may end late and a check takes time, which Late bounds.  *)
(***************************************************************************)
MaxHours == 132
Late == {0, 1}
Day == 24
HalfDay == 12
Grace == 72

\* What _check_license gives (__main__.py:47-80): (True, ""), (False, error),
\* or an exception it does not catch: it catches only aiohttp.ClientError,
\* so the total timeout's asyncio.TimeoutError, or the AttributeError of
\* data.get on a 200 body that is not a JSON object, reach the caller.
Readings == {"valid", "invalid", "raises"}

\* __main__.py:108: the 24 h sleep ends.
Sleep24Done(late) ==
    /\ lpc = "sleep24"
    /\ now + Day + late <= MaxHours
    /\ now' = now + Day + late
    /\ lpc' = "check"
    /\ UNCHANGED <<grace_end, resolved, exit_code, rechecks>>
    /\ UNCHANGED notLic

\* __main__.py:109-119: the periodic check; a failure opens the grace
\* period and the inner loop's first test passes.
PeriodicCheck(reading) ==
    /\ lpc = "check"
    /\ IF reading = "valid"
       THEN /\ lpc' = "sleep24"
            /\ UNCHANGED <<grace_end, resolved, rechecks>>
       ELSE IF reading = "invalid"
       THEN /\ grace_end' = now + Grace
            /\ resolved' = FALSE
            /\ rechecks' = 0
            /\ lpc' = "sleep12"
       ELSE /\ lpc' = "dead"
            /\ UNCHANGED <<grace_end, resolved, rechecks>>
    /\ UNCHANGED <<now, exit_code>>
    /\ UNCHANGED notLic

\* __main__.py:121: the 12 h sleep ends.
Sleep12Done(late) ==
    /\ lpc = "sleep12"
    /\ now + HalfDay + late <= MaxHours
    /\ now' = now + HalfDay + late
    /\ lpc' = "grace_check"
    /\ UNCHANGED <<grace_end, resolved, exit_code, rechecks>>
    /\ UNCHANGED notLic

\* __main__.py:120-130: a check of the grace period, the loop test that
\* follows it, and the exit when the loop ends unresolved.
GraceCheck(reading) ==
    /\ lpc = "grace_check"
    /\ IF reading = "valid"
       THEN /\ resolved' = TRUE
            /\ rechecks' = rechecks + 1
            /\ lpc' = "sleep24"
            /\ UNCHANGED exit_code
       ELSE IF reading = "invalid"
       THEN /\ rechecks' = rechecks + 1
            /\ IF now < grace_end
               THEN /\ lpc' = "sleep12"
                    /\ UNCHANGED exit_code
               ELSE /\ lpc' = "exited"
                    /\ exit_code' = 1
            /\ UNCHANGED resolved
       ELSE /\ lpc' = "dead"
            /\ UNCHANGED <<resolved, exit_code, rechecks>>
    /\ UNCHANGED <<now, grace_end>>
    /\ UNCHANGED notLic

NextLic ==
    \/ \E late \in Late : Sleep24Done(late)
    \/ \E reading \in Readings : PeriodicCheck(reading)
    \/ \E late \in Late : Sleep12Done(late)
    \/ \E reading \in Readings : GraceCheck(reading)

SpecLic == Init /\ [][NextLic]_vars

\* C19: the periodic task keeps re-checking (it is asleep, checking, or has
\* ended the process), and the process exits, with code 1, only when 72 h
\* have passed in a grace period without a valid reading.
C19_LicenseCycle ==
    /\ lpc \in {"sleep24", "check", "sleep12", "grace_check", "exited"}
    /\ exit_code # NoExit =>
          (exit_code = 1 /\ now >= grace_end /\ ~resolved /\ rechecks >= 1)

(***************************************************************************)
(* UserMaxClient._listen_loop, _handle_ws_message and                      *)
(* _handle_incoming_event (max/user_client.py:492-625).                    *)
(***************************************************************************)
MaxFrames == 3

\* A frame is an incoming event (opcodes INCOMING_MESSAGE / EDIT / DELETE),
\* another JSON frame (response, ack, heartbeat), or text json.loads rejects.
FrameKinds == {"event", "other", "bad"}

\* Max sends a frame; events are numbered in the order Max emits them.
WsServerSends(kind) ==
    /\ wsSent < MaxFrames
    /\ wpc \notin {"stopped", "ended"}
    /\ wsSent' = wsSent + 1
    /\ wsEmitted' = IF kind = "event" THEN wsEmitted + 1 ELSE wsEmitted
    /\ wsIn' = Append(wsIn, [kind |-> kind, n |-> IF kind = "event" THEN wsEmitted + 1 ELSE 0])
    /\ UNCHANGED <<wsStarted, wsHandling, wpc, wsAcked, wsCur, wsFault>>
    /\ UNCHANGED notWs

AckOf_None(n) == <<>>

\* user_client.py:529-538: the response the client writes for the server's
\* INCOMING_MESSAGE frame n, before anything of the frame is handled.
AckOf(n) == <<n>>

\* user_client.py:495-498 and 527-538: an event frame is received and its
\* ack is written with _send_raw.
WsAck ==
    /\ wpc = "receive" /\ wsIn # <<>>
    /\ Head(wsIn).kind = "event"
    /\ wsIn' = Tail(wsIn)
    /\ wsCur' = Head(wsIn).n
    /\ wsAcked' = wsAcked \o AckOf(Head(wsIn).n)
    /\ wpc' = "acked"
    /\ UNCHANGED <<wsSent, wsEmitted, wsStarted, wsHandling, wsFault>>
    /\ UNCHANGED notWs

\* user_client.py:498: the loop awaits _handle_ws_message, which awaits
\* _handle_incoming_event, _dispatch_event and on_event.
DispatchPc_Detached == "receive"
DispatchPc == "on_event"

\* user_client.py:539-540 and 597-625: the event is decoded and handed to
\* on_event.
WsReceiveEvent ==
    /\ wpc = "acked"
    /\ wsStarted' = Append(wsStarted, wsCur)
    /\ wsHandling' = wsHandling \cup {wsCur}
    /\ wpc' = DispatchPc
    /\ UNCHANGED <<wsIn, wsSent, wsEmitted, wsAcked, wsCur, wsFault>>
    /\ UNCHANGED notWs

\* user_client.py:539-543: a constructor of _handle_incoming_event raises;
\* _handle_ws_message logs it and returns, on_event is not called.
WsDecodeFails ==
    /\ wpc = "acked"
    /\ wsFault' = "decode"
    /\ wsCur' = 0
    /\ wpc' = "receive"
    /\ UNCHANGED <<wsIn, wsSent, wsEmitted, wsStarted, wsHandling, wsAcked>>
    /\ UNCHANGED notWs

\* base_client.py:99-102 and user_client.py:539-556: on_event returns, or
\* raises and is logged by _dispatch_event (what would pass it is logged by
\* _handle_ws_message); the loop receives again.
WsOnEventDone(outcome) ==
    /\ wpc = "on_event"
    /\ wsHandling' = wsHandling \ {wsStarted[Len(wsStarted)]}
    /\ wsCur' = 0
    /\ wsFault' = IF outcome = "raises" THEN "handler" ELSE wsFault
    /\ wpc' = "receive"
    /\ UNCHANGED <<wsIn, wsSent, wsEmitted, wsStarted, wsAcked>>
    /\ UNCHANGED notWs

\* user_client.py:519-527, 558-580: a heartbeat, response, error or ack frame
\* is handled without on_event.
WsReceiveOther ==
    /\ wpc = "receive" /\ wsIn # <<>>
    /\ Head(wsIn).kind = "other"
    /\ wsIn' = Tail(wsIn)
    /\ UNCHANGED <<wsSent, wsEmitted, wsStarted, wsHandling, wpc, wsAcked, wsCur, wsFault>>
    /\ UNCHANGED notWs

\* user_client.py:497 and 508-510: json.loads raises; the loop logs and
\* sleeps one second.
WsReceiveBad ==
    /\ wpc = "receive" /\ wsIn # <<>>
    /\ Head(wsIn).kind = "bad"
    /\ wsIn' = Tail(wsIn)
    /\ wsFault' = "bad"
    /\ wpc' = "sleep"
    /\ UNCHANGED <<wsSent, wsEmitted, wsStarted, wsHandling, wsAcked, wsCur>>
    /\ UNCHANGED notWs

\* user_client.py:510
WsSleepDone ==
    /\ wpc = "sleep"
    /\ wpc' = "receive"
    /\ UNCHANGED <<wsIn, wsSent, wsEmitted, wsStarted, wsHandling, wsAcked, wsCur, wsFault>>
    /\ UNCHANGED notWs

\* user_client.py:499-504: receive() gives CLOSED or ERROR (Max or the
\* network closed the connection); the loop logs a warning and breaks.
\* Nothing reconnects, and _running stays True.
WsReceiveClosed ==
    /\ wpc = "receive" /\ wsIn = <<>>
    /\ wsFault' = "closed"
    /\ wpc' = "ended"
    /\ UNCHANGED <<wsIn, wsSent, wsEmitted, wsStarted, wsHandling, wsAcked, wsCur>>
    /\ UNCHANGED notWs

\* user_client.py:324-338 and 506-507: disconnect() cancels the listener at
\* the await it is suspended in.
ListenerCancelled ==
    /\ wpc \notin {"stopped", "ended"}
    /\ wpc' = "stopped"
    /\ wsHandling' = {}
    /\ wsIn' = <<>>
    /\ wsCur' = 0
    /\ UNCHANGED <<wsSent, wsEmitted, wsStarted, wsAcked, wsFault>>
    /\ UNCHANGED notWs

NextListen ==
    \/ \E kind \in FrameKinds : WsServerSends(kind)
    \/ WsAck
    \/ WsReceiveEvent
    \/ WsDecodeFails
    \/ \E outcome \in HandlerOutcomes : WsOnEventDone(outcome)
    \/ WsReceiveOther
    \/ WsReceiveBad
    \/ WsSleepDone
    \/ WsReceiveClosed
    \/ ListenerCancelled

SpecListen == Init /\ [][NextListen]_vars

\* The listener as far as the order of the events goes.
NextListenOrder ==
    \/ \E kind \in FrameKinds : WsServerSends(kind)
    \/ WsAck
    \/ WsReceiveEvent
    \/ WsOnEventDone("returns")
    \/ WsReceiveOther
    \/ WsReceiveBad
    \/ WsSleepDone
    \/ ListenerCancelled

\* The bot loop without the failed requests and the unknown update types,
\* which play no part in the order of the events handed to on_event.
NextPollOrder ==
    \/ \E kind \in {"ok", "malformed"} : ServerUpdate(kind)
    \/ PollUpdates
    \/ SleepDone
    \/ HandleRawUpdate
    \/ OnEventDone("returns")
    \/ DecodeFails
    \/ BotDisconnect

\* One bot client and one user client, each with its loop.
SpecOrder == Init /\ [][NextPollOrder \/ NextListenOrder]_vars

InOrder(started, running_now) ==
    /\ \A i, j \in DOMAIN started : i < j => started[i] < started[j]
    /\ running_now \subseteq (IF started = <<>> THEN {} ELSE {started[Len(started)]})

\* C20: each client hands its events to on_event in source order, and the
\* handling of an event starts only when the handling of the events before
\* it has finished, in the long-poll loop and in the WebSocket listener.
C20_EventsInSourceOrder ==
    /\ InOrder(dispatched, handling)
    /\ InOrder(wsStarted, wsHandling)

C20_Witness ==
    /\ Len(dispatched) >= 2 /\ handling # {}
    /\ Len(wsStarted) >= 2 /\ wsHandling # {}

(***************************************************************************)
(* The reaction table (db/reaction.py) with the schema of db/upgrade.py:   *)
(* mxid is the primary key, idx_reaction_max_ids is a plain index.         *)
(***************************************************************************)
ReactionMxids == {"$r1", "$r2", "$r3"}
ReactionMsgs == {1, 2}
ReactionSenders == {1, 2}
Emojis == {"+", "-"}
ReactionChats == {1}

\* db/reaction.py:61-76: INSERT ... ON CONFLICT (mxid) DO UPDATE SET reaction.
Reaction_insert(mxid, chat, msg, sender, emoji) ==
    /\ dbReaction' =
          IF \E r \in dbReaction : r.mxid = mxid
          THEN {IF r.mxid = mxid THEN [r EXCEPT !.reaction = emoji] ELSE r : r \in dbReaction}
          ELSE dbReaction \cup {[mxid |-> mxid, max_chat_id |-> chat, max_msg_id |-> msg,
                                  max_sender_id |-> sender, reaction |-> emoji]}
    /\ UNCHANGED notReact

\* db/reaction.py:78-80
Reaction_delete_by_mxid(mxid) ==
    /\ dbReaction' = {r \in dbReaction : r.mxid # mxid}
    /\ UNCHANGED notReact

\* db/reaction.py:82-90
Reaction_delete_by_max_ids(chat, msg, sender) ==
    /\ dbReaction' = {r \in dbReaction :
                        ~(r.max_chat_id = chat /\ r.max_msg_id = msg /\ r.max_sender_id = sender)}
    /\ UNCHANGED notReact

NextReact ==
    \/ \E mxid \in ReactionMxids, chat \in ReactionChats, msg \in ReactionMsgs,
          sender \in ReactionSenders, emoji \in Emojis :
          Reaction_insert(mxid, chat, msg, sender, emoji)
    \/ \E mxid \in ReactionMxids : Reaction_delete_by_mxid(mxid)
    \/ \E chat \in ReactionChats, msg \in ReactionMsgs, sender \in ReactionSenders :
          Reaction_delete_by_max_ids(chat, msg, sender)

SpecReact == Init /\ [][NextReact]_vars

\* C21: the reaction table holds at most one row per (chat id, target
\* message id, sender id).
C21_OneReactionPerSender ==
    \A r1, r2 \in dbReaction :
        (r1.max_chat_id = r2.max_chat_id /\ r1.max_msg_id = r2.max_msg_id
            /\ r1.max_sender_id = r2.max_sender_id) => r1 = r2

(***************************************************************************)
(* Claims on the WebSocket listener and on the dispatcher.                 *)
(***************************************************************************)
\* The events whose frame the listener has taken from the socket.
WsTaken == {n \in 1..wsEmitted : \A i \in DOMAIN wsIn : wsIn[i].n # n}

C28_ListenerNeverEnds == wpc # "ended"

\* The two loops with the faults of decoding and of the handler, without
\* disconnect.
NextContain ==
    \/ \E kind \in {"ok", "malformed"} : ServerUpdate(kind)
    \/ PollUpdates
    \/ SleepDone
    \/ HandleRawUpdate
    \/ \E outcome \in HandlerOutcomes : OnEventDone(outcome)
    \/ DecodeFails
    \/ \E kind \in {"event", "bad"} : WsServerSends(kind)
    \/ WsAck
    \/ WsReceiveEvent
    \/ WsDecodeFails
    \/ \E outcome \in HandlerOutcomes : WsOnEventDone(outcome)
    \/ WsReceiveBad
    \/ WsSleepDone

SpecContain == Init /\ [][NextContain]_vars

\* C30: an exception of the event handler does not leave the dispatcher:
\* when the last fault of a loop is a handler exception, the loop is at its
\* next update or frame, not in the sleep of its own exception handler.
C30_HandlerExceptionContained ==
    /\ fault.kind = "handler" => bpc \in {"updates", "request", "on_event"}
    /\ wsFault = "handler" => wpc \in {"receive", "acked", "on_event"}

C30_Witness ==
    /\ fault.kind = "handler" /\ bpc = "on_event" /\ Len(dispatched) >= 2
    /\ wsFault = "handler" /\ wpc = "on_event" /\ Len(wsStarted) >= 2


(***************************************************************************)
(* SpecReq: the requests of one UserMaxClient: callers in _send_and_wait,  *)
(* the listener completing their futures, disconnect, and the setup of the *)
(* phone and QR login flows. The tasks run on one event loop: an action is *)
(* the code between two suspensions.                                       *)
(***************************************************************************)
MaxReqSeq == 2

ErrCodes == {"login.flood", "none"}
SendOutcomes == {"written", "drain", "raises"}

\* user_client.py:570: payload.get("code", "unknown")
ErrorCode(code) == IF code = "none" THEN "unknown" ELSE code

finally_pop_Keep(p, s) == p

\* user_client.py:238-239: finally: self._pending.pop(seq, None)
finally_pop(p, s) == p \ {s}

send_json_Front(w, s) == <<s>> \o w

\* user_client.py:207 (called at 231 through _send): send_json puts the frame
\* on the transport before it can suspend.
send_json(w, s) == Append(w, s)

MatchSlot_Any(p, s) == p

\* user_client.py:559-560 and 567-568: seq in self._pending, then pop(seq).
MatchSlot(p, s) == p \cap {s}

cancel_task_Not(l) == l

\* user_client.py:318-319 and 333-334: the listener task is cancelled if it
\* is not done; it leaves its receive() with CancelledError and breaks
\* (user_client.py:505-506).
cancel_task(l) == IF l = "receive" THEN "cancelled" ELSE l

\* user_client.py:561-562 and 569-574: set_result(payload), or
\* set_exception(MaxAPIError(code, message)).
Resolution(f) ==
    IF f.cmd = "response"
    THEN [state |-> "result", val |-> f.val]
    ELSE [state |-> "error", val |-> ErrorCode(f.val)]

\* user_client.py:232-237: what wait_for gives for a future that is done.
OutcomeOf(fut) ==
    CASE fut.state = "result" -> [kind |-> "result", val |-> fut.val]
      [] fut.state = "error" -> [kind |-> "api_error", val |-> fut.val]
      [] OTHER -> [kind |-> "cancelled", val |-> ""]

\* user_client.py:228 and 239: the future is a local of _send_and_wait; when
\* the call ends nothing refers to it any more.
Release(futs, s) == [futs EXCEPT ![s] = [state |-> "released", val |-> ""]]

\* user_client.py:257-283: connect opened the socket, started the listener
\* and logged in.
ReqConnect ==
    /\ rqMode = "fresh"
    /\ rqMode' = "session"
    /\ rqWs' = "open"
    /\ rqRunning' = TRUE
    /\ rqListen' = "receive"
    /\ UNCHANGED <<rqSeq, rqPending, rqFut, rqWire, rqIn, cpc, cseq, cout, dpc, apc>>
    /\ UNCHANGED notReq

\* user_client.py:345-351 with 368-372 / 417-421: _init_auth_session opens the
\* socket and starts the listener; when ws_connect raises, the flow goes to
\* _close_ws.
InitAuthSession(ok) ==
    /\ rqMode = "fresh"
    /\ rqMode' = "auth"
    /\ IF ok
       THEN /\ rqWs' = "open"
            /\ rqRunning' = TRUE
            /\ rqListen' = "receive"
            /\ apc' = "init_session"
       ELSE /\ apc' = "cleanup"
            /\ UNCHANGED <<rqWs, rqRunning, rqListen>>
    /\ UNCHANGED <<rqSeq, rqPending, rqFut, rqWire, rqIn, cpc, cseq, cout, dpc>>
    /\ UNCHANGED notReq

\* A caller may call: the login flow at its two requests, the callers of a
\* session once connect returned.
MayCall(c) ==
    IF c = "flow"
    THEN rqMode = "auth" /\ apc \in {"init_session", "start_auth"}
    ELSE rqMode = "session"

\* user_client.py:220-231 with 186-208: _send_and_wait up to its first
\* suspension: the seq, the future, the slot, then _send_raw: not_connected
\* without an open socket, else send_json, which writes the frame and may
\* wait for the transport to drain, or raises.
SendAndWaitEnter(c, sendOutcome) ==
    /\ cpc[c] = "idle"
    /\ MayCall(c)
    /\ rqSeq < MaxReqSeq
    /\ LET s == next_seq(rqSeq)
           slot == rqPending \cup {s}
           connected == rqWs \in {"open", "closing"} IN
        /\ rqSeq' = s
        /\ cseq' = [cseq EXCEPT ![c] = s]
        /\ IF connected /\ sendOutcome # "raises"
           THEN /\ rqWire' = send_json(rqWire, s)
                /\ rqPending' = slot
                /\ rqFut' = Append(rqFut, [state |-> "pending", val |-> ""])
                /\ cpc' = [cpc EXCEPT ![c] = IF sendOutcome = "drain" THEN "drain" ELSE "wait"]
                /\ cout' = [cout EXCEPT ![c] = NoOutcome]
           ELSE /\ rqPending' = finally_pop(slot, s)
                /\ rqFut' = Append(rqFut, [state |-> "released", val |-> ""])
                /\ cpc' = [cpc EXCEPT ![c] = "done"]
                /\ cout' = [cout EXCEPT ![c] =
                              [kind |-> IF connected THEN "send_error" ELSE "not_connected",
                               val |-> ""]]
                /\ UNCHANGED rqWire
    /\ UNCHANGED <<rqMode, rqWs, rqRunning, rqListen, rqIn, dpc, apc>>
    /\ UNCHANGED notReq

\* user_client.py:231-239: send_json returned after the drain, or raised; then
\* wait_for, which returns at once for a future that is done.
DrainDone(c, ok) ==
    /\ cpc[c] = "drain"
    /\ LET s == cseq[c] IN
        IF ok /\ rqFut[s].state = "pending"
        THEN /\ cpc' = [cpc EXCEPT ![c] = "wait"]
             /\ UNCHANGED <<rqPending, rqFut, cout>>
        ELSE /\ cpc' = [cpc EXCEPT ![c] = "done"]
             /\ rqPending' = finally_pop(rqPending, s)
             /\ rqFut' = Release(rqFut, s)
             /\ cout' = [cout EXCEPT ![c] =
                           IF ok THEN OutcomeOf(rqFut[s])
                           ELSE [kind |-> "send_error", val |-> ""]]
    /\ UNCHANGED <<rqMode, rqWs, rqRunning, rqListen, rqSeq, rqWire, rqIn,
                   cseq, dpc, apc>>
    /\ UNCHANGED notReq

\* user_client.py:232 and 238-239: the future was completed or cancelled; the
\* caller returns the payload or raises.
FutureDone(c) ==
    /\ cpc[c] = "wait"
    /\ rqFut[cseq[c]].state # "pending"
    /\ cpc' = [cpc EXCEPT ![c] = "done"]
    /\ rqPending' = finally_pop(rqPending, cseq[c])
    /\ cout' = [cout EXCEPT ![c] = OutcomeOf(rqFut[cseq[c]])]
    /\ rqFut' = Release(rqFut, cseq[c])
    /\ UNCHANGED <<rqMode, rqWs, rqRunning, rqListen, rqSeq, rqWire, rqIn,
                   cseq, dpc, apc>>
    /\ UNCHANGED notReq

\* user_client.py:232-239: the timeout (30 s by default) passed: wait_for
\* cancels the future and raises TimeoutError, which becomes
\* MaxAPIError("timeout").
WaitTimeout(c) ==
    /\ cpc[c] = "wait"
    /\ rqFut[cseq[c]].state = "pending"
    /\ rqFut' = Release(rqFut, cseq[c])
    /\ cpc' = [cpc EXCEPT ![c] = "done"]
    /\ rqPending' = finally_pop(rqPending, cseq[c])
    /\ cout' = [cout EXCEPT ![c] = [kind |-> "timeout", val |-> ""]]
    /\ UNCHANGED <<rqMode, rqWs, rqRunning, rqListen, rqSeq, rqWire, rqIn,
                   cseq, dpc, apc>>
    /\ UNCHANGED notReq

\* user_client.py:230-239: the caller's task is cancelled at one of its two
\* awaits; CancelledError passes the except clause and the finally block.
CallerCancelled(c) ==
    /\ cpc[c] \in {"drain", "wait"}
    /\ rqFut' = Release(rqFut, cseq[c])
    /\ cpc' = [cpc EXCEPT ![c] = "done"]
    /\ rqPending' = finally_pop(rqPending, cseq[c])
    /\ cout' = [cout EXCEPT ![c] = [kind |-> "cancelled", val |-> ""]]
    /\ UNCHANGED <<rqMode, rqWs, rqRunning, rqListen, rqSeq, rqWire, rqIn,
                   cseq, dpc, apc>>
    /\ UNCHANGED notReq

\* The caller of send_message, get_chats, ... took the outcome; it may call
\* again.
CallerReturns(c) ==
    /\ c # "flow"
    /\ cpc[c] = "done"
    /\ cpc' = [cpc EXCEPT ![c] = "idle"]
    /\ cseq' = [cseq EXCEPT ![c] = 0]
    /\ cout' = [cout EXCEPT ![c] = NoOutcome]
    /\ UNCHANGED <<rqMode, rqWs, rqRunning, rqListen, rqSeq, rqPending, rqFut, rqWire,
                   rqIn, dpc, apc>>
    /\ UNCHANGED notReq

\* Max sends a response (cmd=1) or an error (cmd=3) frame; its seq may be one
\* the client never used (the next one stands for all of them) or one that
\* was answered before. The socket hands the frames to receive() one at a
\* time.
ServerReplies(cmd, s, code) ==
    /\ rqWs = "open"
    /\ rqIn = <<>>
    /\ s <= rqSeq + 1
    /\ rqIn' = Append(rqIn, [cmd |-> cmd, seq |-> s,
                             val |-> IF cmd = "response" THEN "payload" ELSE code])
    /\ UNCHANGED <<rqMode, rqWs, rqRunning, rqListen, rqSeq, rqPending, rqFut, rqWire, cpc, cseq, cout, dpc, apc>>
    /\ UNCHANGED notReq

\* user_client.py:494-499 and 557-576: the listener receives a response or
\* error frame: the slot of its seq is popped and its future completed; a
\* frame without a slot is dropped (an error one with a warning).
ListenerHandles ==
    /\ rqListen = "receive"
    /\ rqWs = "open"
    /\ rqIn # <<>>
    /\ LET f == Head(rqIn)
           hit == MatchSlot(rqPending, f.seq) IN
        /\ rqPending' = rqPending \ hit
        /\ rqFut' = [i \in DOMAIN rqFut |->
                       IF i \in hit /\ rqFut[i].state = "pending"
                       THEN Resolution(f) ELSE rqFut[i]]
    /\ rqIn' = Tail(rqIn)
    /\ UNCHANGED <<rqMode, rqWs, rqRunning, rqListen, rqSeq, rqWire, cpc, cseq, cout, dpc, apc>>
    /\ UNCHANGED notReq

\* user_client.py:500-504: Max closed the socket: receive() gives CLOSED and
\* the listener breaks.
ListenerEnds ==
    /\ rqListen = "receive"
    /\ rqWs = "open"
    /\ rqWs' = "closed"
    /\ rqListen' = "ended"
    /\ UNCHANGED <<rqMode, rqRunning, rqSeq, rqPending, rqFut, rqWire, rqIn, cpc, cseq, cout, dpc, apc>>
    /\ UNCHANGED notReq

\* user_client.py:324-336: disconnect up to its first suspension: the futures
\* of the table are cancelled, the table cleared, the listener cancelled and
\* ws.close() called. close() first waits for the listener to leave its
\* receive(); the socket reports closed only after that.
ClientDisconnect ==
    /\ rqMode = "session"
    /\ dpc = "idle"
    /\ rqRunning' = FALSE
    /\ rqFut' = [i \in DOMAIN rqFut |->
                   IF i \in rqPending /\ rqFut[i].state = "pending"
                   THEN [rqFut[i] EXCEPT !.state = "cancelled"] ELSE rqFut[i]]
    /\ rqPending' = {}
    /\ rqListen' = cancel_task(rqListen)
    /\ rqWs' = IF rqWs = "open" THEN "closing" ELSE rqWs
    /\ dpc' = "closing"
    /\ UNCHANGED <<rqMode, rqSeq, rqWire, rqIn, cpc, cseq, cout, apc>>
    /\ UNCHANGED notReq

\* user_client.py:335-338: ws.close() and session.close() returned.
ClientDisconnectDone ==
    /\ dpc = "closing"
    /\ rqWs' = IF rqWs = "closing" THEN "closed" ELSE rqWs
    /\ dpc' = "done"
    /\ UNCHANGED <<rqMode, rqRunning, rqListen, rqSeq, rqPending, rqFut, rqWire, rqIn,
                   cpc, cseq, cout, apc>>
    /\ UNCHANGED notReq

\* user_client.py:353-356 and 368-381 / 417-430: a request of the flow ended:
\* after INIT_SESSION comes the start request, after that the flow returns;
\* an Exception leads to _close_ws, CancelledError passes "except Exception".
AuthStep ==
    /\ rqMode = "auth"
    /\ apc \in {"init_session", "start_auth"}
    /\ cpc["flow"] = "done"
    /\ apc' = CASE cout["flow"].kind = "result" ->
                       (IF apc = "init_session" THEN "start_auth" ELSE "ok")
                [] cout["flow"].kind = "cancelled" -> "cancelled"
                [] OTHER -> "cleanup"
    /\ cpc' = [cpc EXCEPT !["flow"] = "idle"]
    /\ UNCHANGED <<rqMode, rqWs, rqRunning, rqListen, rqSeq, rqPending, rqFut, rqWire,
                   rqIn, cseq, cout, dpc>>
    /\ UNCHANGED notReq

\* user_client.py:315-322: _close_ws up to its suspension in ws.close().
CloseWs ==
    /\ apc = "cleanup"
    /\ rqRunning' = FALSE
    /\ rqListen' = cancel_task(rqListen)
    /\ rqWs' = IF rqWs = "open" THEN "closing" ELSE rqWs
    /\ apc' = IF rqWs = "open" THEN "closing" ELSE "failed"
    /\ UNCHANGED <<rqMode, rqSeq, rqPending, rqFut, rqWire, rqIn, cpc, cseq, cout, dpc>>
    /\ UNCHANGED notReq

\* user_client.py:321-322 with 371-372 / 380-381: ws.close() returned and the
\* flow raises.
CloseWsDone ==
    /\ apc = "closing"
    /\ rqWs' = "closed"
    /\ apc' = "failed"
    /\ UNCHANGED <<rqMode, rqRunning, rqListen, rqSeq, rqPending, rqFut, rqWire, rqIn,
                   cpc, cseq, cout, dpc>>
    /\ UNCHANGED notReq

NextReq ==
    \/ ReqConnect
    \/ \E ok \in BOOLEAN : InitAuthSession(ok)
    \/ \E c \in ReqCallers, sendOutcome \in SendOutcomes : SendAndWaitEnter(c, sendOutcome)
    \/ \E c \in ReqCallers, ok \in BOOLEAN : DrainDone(c, ok)
    \/ \E c \in ReqCallers : FutureDone(c)
    \/ \E c \in ReqCallers : WaitTimeout(c)
    \/ \E c \in ReqCallers : CallerCancelled(c)
    \/ \E c \in ReqCallers : CallerReturns(c)
    \/ \E s \in 1..MaxReqSeq : ServerReplies("response", s, "none")
    \/ \E s \in 1..MaxReqSeq, code \in ErrCodes : ServerReplies("error", s, code)
    \/ ListenerHandles
    \/ ListenerEnds
    \/ ClientDisconnect
    \/ ClientDisconnectDone
    \/ AuthStep
    \/ CloseWs
    \/ CloseWsDone

SpecReq == Init /\ [][NextReq]_vars


C23_SlotRemovedOnExit ==
    /\ \A c \in ReqCallers : cpc[c] \in {"idle", "done"} => cseq[c] \notin rqPending
    /\ \A s \in rqPending :
          \E c \in ReqCallers : cseq[c] = s /\ cpc[c] \in {"drain", "wait"}

\* C23 witness: one call ended with the timeout error, another with the
\* error of the server, and no slot is left.
C23_Witness ==
    /\ cpc["c1"] = "done" /\ cout["c1"].kind = "timeout"
    /\ cpc["c2"] = "done" /\ cout["c2"].kind = "api_error"
    /\ rqPending = {}

\* C24: with concurrent callers the seq, the slot and the frame of a request
\* come about in one step: the frames reach the socket in increasing seq
\* order, and every call that is suspended has its frame on the socket.
C24_FramesInSeqOrder ==
    /\ \A i, j \in DOMAIN rqWire : i < j => rqWire[i] < rqWire[j]
    /\ \A c \in ReqCallers :
          cpc[c] \in {"drain", "wait"} => \E i \in DOMAIN rqWire : rqWire[i] = cseq[c]
    /\ \A s \in rqPending : \E i \in DOMAIN rqWire : rqWire[i] = s

\* C24 witness: two callers are suspended in send_json at the same time, the
\* one that called second with the greater seq.
C24_Witness ==
    /\ cpc["c1"] = "drain"
    /\ cpc["c2"] = "drain"
    /\ cseq["c1"] > cseq["c2"]
    /\ Len(rqWire) = 2

\* C26: after disconnect returned the pending table is empty and no caller
\* waits for a future.
C26_DisconnectLeavesNothing ==
    dpc = "done" =>
        /\ rqPending = {}
        /\ \A c \in ReqCallers : cpc[c] = "wait" => rqFut[cseq[c]].state # "pending"

MaxConnEvents == 2

RefreshedTokens == {"", "tok", "tok2"}
LoginChats == {1, 2}
NoData == [isdict |-> FALSE, chats |-> {}]

\* user_client.py:257-283: connect is declared "-> None" and has no return
\* statement, whatever the login response held.
UserMaxClient_connect(resp) == NoData

\* user.py:125: login_data.get("chats", []) if isinstance(login_data, dict)
\* else login_data; None is falsy like the empty list.
raw_chats(login_data) == IF login_data.isdict THEN login_data.chats ELSE {}

\* user_client.py:293-299: the refreshed token replaces auth_token when the
\* response has one.
login_token(old, token) == IF token # "" THEN token ELSE old

\* __main__.py:132-141: the User is built from the row of a user-mode login
\* and its connect task is created.
CnStart(tok, uid) ==
    /\ cnPc = "new"
    /\ cnUser' = [max_token |-> tok, max_user_id |-> uid, max_client |-> FALSE]
    /\ cnRow' = [max_token |-> tok, max_user_id |-> uid]
    /\ cnPc' = "connect"
    /\ UNCHANGED <<cnClient, cnLogin, cnSyncTask, cnDispatched, cnLate>>
    /\ UNCHANGED notConn

\* user.py:104-116 with user_client.py:257-259: the client is built with the
\* saved token and attached; its connect awaits ws_connect.
CnBuildClient ==
    /\ cnPc = "connect"
    /\ cnClient' = [NoClient EXCEPT !.auth_token = cnUser.max_token]
    /\ cnUser' = [cnUser EXCEPT !.max_client = TRUE]
    /\ cnPc' = "ws_connect"
    /\ UNCHANGED <<cnRow, cnLogin, cnSyncTask, cnDispatched, cnLate>>
    /\ UNCHANGED notConn

\* user.py:129-131: except Exception: log, self.max_client = None. The client
\* object is dropped as it is.
ConnectFailed(u) == [u EXCEPT !.max_client = FALSE]

\* user_client.py:259-264: ws_connect returned, _running is set and the
\* listener task created; or ws_connect raised.
CnWsConnect(ok) ==
    /\ cnPc = "ws_connect"
    /\ IF ok
       THEN /\ cnClient' = [cnClient EXCEPT !.ws = "open", !.listen = "running"]
            /\ cnPc' = "init_session"
            /\ UNCHANGED cnUser
       ELSE /\ cnUser' = ConnectFailed(cnUser)
            /\ cnPc' = "failed"
            /\ UNCHANGED cnClient
    /\ UNCHANGED <<cnRow, cnLogin, cnSyncTask, cnDispatched, cnLate>>
    /\ UNCHANGED notConn

\* user_client.py:266-271: INIT_SESSION was answered, or _send_and_wait
\* raised (error frame, timeout).
CnInitSession(ok) ==
    /\ cnPc = "init_session"
    /\ IF ok
       THEN /\ cnPc' = "login"
            /\ UNCHANGED cnUser
       ELSE /\ cnUser' = ConnectFailed(cnUser)
            /\ cnPc' = "failed"
    /\ UNCHANGED <<cnRow, cnClient, cnLogin, cnSyncTask, cnDispatched, cnLate>>
    /\ UNCHANGED notConn

\* user_client.py:274-313 then user.py:116-128: LOGIN_BY_TOKEN was answered:
\* the client takes the refreshed token and the profile and starts the
\* keepalive; connect returns. The user stores the profile's id when it has
\* none (None and 0 are falsy) and awaits _save, else it looks at the chats
\* of what connect returned.
CnLoginByToken(resp) ==
    /\ cnPc = "login"
    /\ cnLogin' = resp
    /\ cnClient' = [cnClient EXCEPT !.auth_token = login_token(@, resp.token),
                                    !.me = resp.me, !.keepalive = TRUE]
    /\ IF resp.me # NoUserId /\ cnUser.max_user_id \in {NoUserId, 0}
       THEN /\ cnUser' = [cnUser EXCEPT !.max_user_id = resp.me]
            /\ cnPc' = "save"
            /\ UNCHANGED cnSyncTask
       ELSE /\ cnSyncTask' = IF raw_chats(UserMaxClient_connect(resp)) # {}
                             THEN raw_chats(UserMaxClient_connect(resp)) ELSE cnSyncTask
            /\ cnPc' = "connected"
            /\ UNCHANGED cnUser
    /\ UNCHANGED <<cnRow, cnDispatched, cnLate>>
    /\ UNCHANGED notConn

\* user_client.py:285-292: the token login raised (error frame, timeout, or
\* an empty response).
CnLoginFails ==
    /\ cnPc = "login"
    /\ cnUser' = ConnectFailed(cnUser)
    /\ cnPc' = "failed"
    /\ UNCHANGED <<cnRow, cnClient, cnLogin, cnSyncTask, cnDispatched, cnLate>>
    /\ UNCHANGED notConn

\* user.py:121-128 with 477-492: _save wrote the row, then the chats of what
\* connect returned are looked at; or _save raised.
CnSaved(ok) ==
    /\ cnPc = "save"
    /\ IF ok
       THEN /\ cnRow' = [max_token |-> cnUser.max_token, max_user_id |-> cnUser.max_user_id]
            /\ cnSyncTask' = IF raw_chats(UserMaxClient_connect(cnLogin)) # {}
                             THEN raw_chats(UserMaxClient_connect(cnLogin)) ELSE cnSyncTask
            /\ cnPc' = "connected"
            /\ UNCHANGED cnUser
       ELSE /\ cnUser' = ConnectFailed(cnUser)
            /\ cnPc' = "failed"
            /\ UNCHANGED <<cnRow, cnSyncTask>>
    /\ UNCHANGED <<cnClient, cnLogin, cnDispatched, cnLate>>
    /\ UNCHANGED notConn

\* user_client.py:494-499 and 527-555 with user.py:113: Max sends an event
\* on the open socket; the running listener hands it to on_event, which is
\* the session's _on_max_event.
CnServerEvent ==
    /\ cnClient.ws = "open"
    /\ cnClient.listen = "running"
    /\ cnDispatched < MaxConnEvents
    /\ cnDispatched' = cnDispatched + 1
    /\ cnLate' = IF cnPc = "failed" THEN cnLate + 1 ELSE cnLate
    /\ UNCHANGED <<cnPc, cnUser, cnRow, cnClient, cnLogin, cnSyncTask>>
    /\ UNCHANGED notConn

\* user_client.py:500-504: Max closes the socket; the listener breaks.
CnServerCloses ==
    /\ cnClient.ws = "open"
    /\ cnPc \in {"connected", "failed"}
    /\ cnClient' = [cnClient EXCEPT !.ws = "closed", !.listen = "ended"]
    /\ UNCHANGED <<cnPc, cnUser, cnRow, cnLogin, cnSyncTask, cnDispatched, cnLate>>
    /\ UNCHANGED notConn

NextConn ==
    \/ \E tok \in SavedTokens, uid \in SavedUserIds : CnStart(tok, uid)
    \/ CnBuildClient
    \/ \E ok \in BOOLEAN : CnWsConnect(ok)
    \/ \E ok \in BOOLEAN : CnInitSession(ok)
    \/ \E token \in RefreshedTokens, me \in UserMeIds, chats \in SUBSET LoginChats :
          CnLoginByToken([token |-> token, me |-> me, chats |-> chats])
    \/ CnLoginFails
    \/ \E ok \in BOOLEAN : CnSaved(ok)
    \/ CnServerEvent
    \/ CnServerCloses

SpecConn == Init /\ [][NextConn]_vars

\* C31: after a successful connect in user mode the persisted max_token of
\* the session equals the auth token the client holds.
C31_PersistedTokenIsCurrent ==
    cnPc = "connected" => cnRow.max_token = cnClient.auth_token

\* C32: after connect succeeded in user mode with a login response that
\* lists chats, the chat sync task was created with those chats.
C32_ChatSyncLaunched ==
    (cnPc = "connected" /\ cnLogin.chats # {}) => cnSyncTask = cnLogin.chats

\* C36: once connect has failed and max_client is reset, the socket of the
\* abandoned client is not open, its listener does not run, and it has
\* handed no event to the session since.
C36_AbandonedClientTornDown ==
    cnPc = "failed" =>
        /\ cnClient.ws # "open"
        /\ cnClient.listen # "running"
        /\ cnLate = 0


(***************************************************************************)
(* SpecStep: POST /v3/login/step requests for one login id, which may run  *)
(* at the same time, with poll_qr_auth for the QR flow.                    *)
(***************************************************************************)
MaxStepRequests == 3

\* provisioning.py:292: poll_qr_auth(timeout=5); user_client.py:453 and 486:
\* the sleeps after a failed and after a fruitless QR_POLL, in seconds.
QrStepTimeout == 5
QrErrorSleep == 2
QrPollSleep == 3

StepFlows == {"bot_token", "qr"}
QrPollResults == {"closed", "api_error", "waiting", "expired", "available"}

StepReplyOf(status, type) == [status |-> status, type |-> type]

\* provisioning.py:291-300: whatever poll_qr_auth raises, the step answers
\* "waiting".
QrStepRaised(code) == StepReplyOf(200, "waiting")

\* provisioning.py:94-177: v3_start_login stored a session for the login id.
StStartLogin(flow) ==
    /\ stSession = ""
    /\ stRequests = 0
    /\ stSession' = flow
    /\ UNCHANGED <<stPc, stLoc, stReply, stLoginCalls, stRequests>>
    /\ UNCHANGED notStep

\* provisioning.py:185-190: the session is looked up; 404 without one, else
\* the body is awaited.
StepEnter(r) ==
    /\ stPc[r] = "idle"
    /\ stRequests < MaxStepRequests
    /\ stRequests' = stRequests + 1
    /\ IF stSession = ""
       THEN /\ stReply' = [stReply EXCEPT ![r] = StepReplyOf(404, "error")]
            /\ stPc' = [stPc EXCEPT ![r] = "done"]
            /\ stLoc' = [stLoc EXCEPT ![r] = NoStepLoc]
       ELSE /\ stReply' = [stReply EXCEPT ![r] = NoStepReply]
            /\ stPc' = [stPc EXCEPT ![r] = "body"]
            /\ stLoc' = [stLoc EXCEPT ![r] = [NoStepLoc EXCEPT !.session = stSession]]
    /\ UNCHANGED <<stSession, stLoginCalls>>
    /\ UNCHANGED notStep

\* provisioning.py:190-205 and 286-292: the body arrived; the branch is
\* chosen from the session object looked up before. The token flow calls
\* login_bot (after the awaited User.get_by_mxid), the QR flow poll_qr_auth,
\* which takes its deadline (user_client.py:440).
StepBody(r, hasToken) ==
    /\ stPc[r] = "body"
    /\ IF stLoc[r].session = "bot_token"
       THEN IF hasToken
            THEN /\ stLoginCalls' = stLoginCalls + 1
                 /\ stPc' = [stPc EXCEPT ![r] = "login"]
                 /\ UNCHANGED stReply
            ELSE /\ stReply' = [stReply EXCEPT ![r] = StepReplyOf(400, "error")]
                 /\ stPc' = [stPc EXCEPT ![r] = "done"]
                 /\ UNCHANGED stLoginCalls
       ELSE /\ stPc' = [stPc EXCEPT ![r] = "poll"]
            /\ UNCHANGED <<stReply, stLoginCalls>>
    /\ UNCHANGED <<stSession, stLoc, stRequests>>
    /\ UNCHANGED notStep

\* user_client.py:441-486: one round of the loop of poll_qr_auth while the
\* deadline has not passed: the socket is closed, QR_POLL fails (sleep 2 s),
\* the login is available (QR_CONFIRM is sent), expiresAt is in the past
\* (qr_expired is raised), or nothing yet (sleep 3 s).
QrPoll(r, result) ==
    /\ stPc[r] = "poll"
    /\ stLoc[r].elapsed < QrStepTimeout
    /\ CASE result = "closed" ->
              /\ stLoc' = [stLoc EXCEPT ![r].raised = "not_connected"]
              /\ stReply' = [stReply EXCEPT ![r] = QrStepRaised("not_connected")]
              /\ stPc' = [stPc EXCEPT ![r] = "done"]
         [] result = "api_error" ->
              /\ stLoc' = [stLoc EXCEPT ![r].elapsed = @ + QrErrorSleep]
              /\ UNCHANGED <<stReply, stPc>>
         [] result = "waiting" ->
              /\ stLoc' = [stLoc EXCEPT ![r].elapsed = @ + QrPollSleep]
              /\ UNCHANGED <<stReply, stPc>>
         [] result = "expired" ->
              /\ stLoc' = [stLoc EXCEPT ![r].raised = "qr_expired"]
              /\ stReply' = [stReply EXCEPT ![r] = QrStepRaised("qr_expired")]
              /\ stPc' = [stPc EXCEPT ![r] = "done"]
         [] OTHER ->
              /\ stPc' = [stPc EXCEPT ![r] = "confirm"]
              /\ UNCHANGED <<stLoc, stReply>>
    /\ UNCHANGED <<stSession, stLoginCalls, stRequests>>
    /\ UNCHANGED notStep

\* user_client.py:441 and 488: the deadline passed: MaxAPIError("timeout").
QrDeadline(r) ==
    /\ stPc[r] = "poll"
    /\ stLoc[r].elapsed >= QrStepTimeout
    /\ stLoc' = [stLoc EXCEPT ![r].raised = "timeout"]
    /\ stReply' = [stReply EXCEPT ![r] = QrStepRaised("timeout")]
    /\ stPc' = [stPc EXCEPT ![r] = "done"]
    /\ UNCHANGED <<stSession, stLoginCalls, stRequests>>
    /\ UNCHANGED notStep

\* user_client.py:457-477 and provisioning.py:302-318: QR_CONFIRM was
\* answered, with a login token or without, or failed. With a token
\* login_user is called (after the awaited User.get_by_mxid).
QrConfirm(r, outcome) ==
    /\ stPc[r] = "confirm"
    /\ CASE outcome = "token" ->
              /\ stLoginCalls' = stLoginCalls + 1
              /\ stPc' = [stPc EXCEPT ![r] = "login"]
              /\ UNCHANGED <<stLoc, stReply>>
         [] outcome = "no_token" ->
              /\ stReply' = [stReply EXCEPT ![r] = StepReplyOf(200, "waiting")]
              /\ stPc' = [stPc EXCEPT ![r] = "done"]
              /\ UNCHANGED <<stLoc, stLoginCalls>>
         [] OTHER ->
              /\ stLoc' = [stLoc EXCEPT ![r].raised = "api_error"]
              /\ stReply' = [stReply EXCEPT ![r] = QrStepRaised("api_error")]
              /\ stPc' = [stPc EXCEPT ![r] = "done"]
              /\ UNCHANGED stLoginCalls
    /\ UNCHANGED <<stSession, stRequests>>
    /\ UNCHANGED notStep

\* provisioning.py:204-213 and 304-312: login_bot / login_user returned: the
\* session is deleted from the dict, KeyError when it is not there (the
\* server answers 500); or login_bot raised (401), or login_user did (500).
StepLoginReturns(r, ok) ==
    /\ stPc[r] = "login"
    /\ IF ok
       THEN IF stSession # ""
            THEN /\ stSession' = ""
                 /\ stReply' = [stReply EXCEPT ![r] = StepReplyOf(200, "complete")]
                 /\ UNCHANGED stLoc
            ELSE /\ stLoc' = [stLoc EXCEPT ![r].raised = "KeyError"]
                 /\ stReply' = [stReply EXCEPT ![r] = StepReplyOf(500, "error")]
                 /\ UNCHANGED stSession
       ELSE /\ stReply' = [stReply EXCEPT ![r] =
                             StepReplyOf(IF stLoc[r].session = "bot_token" THEN 401 ELSE 500,
                                         "error")]
            /\ UNCHANGED <<stSession, stLoc>>
    /\ stPc' = [stPc EXCEPT ![r] = "done"]
    /\ UNCHANGED <<stLoginCalls, stRequests>>
    /\ UNCHANGED notStep

\* The client of the API took the response and may send the next request.
StepAnswered(r) ==
    /\ stPc[r] = "done"
    /\ stPc' = [stPc EXCEPT ![r] = "idle"]
    /\ UNCHANGED <<stSession, stLoc, stReply, stLoginCalls, stRequests>>
    /\ UNCHANGED notStep

NextStep ==
    \/ \E flow \in StepFlows : StStartLogin(flow)
    \/ \E r \in StepRequests : StepEnter(r)
    \/ \E r \in StepRequests, hasToken \in BOOLEAN : StepBody(r, hasToken)
    \/ \E r \in StepRequests, result \in QrPollResults : QrPoll(r, result)
    \/ \E r \in StepRequests : QrDeadline(r)
    \/ \E r \in StepRequests, outcome \in {"token", "no_token", "fails"} : QrConfirm(r, outcome)
    \/ \E r \in StepRequests, ok \in BOOLEAN : StepLoginReturns(r, ok)
    \/ \E r \in StepRequests : StepAnswered(r)

SpecStep == Init /\ [][NextStep]_vars

\* C33: when QR_POLL returns an expiresAt in the past, poll_qr_auth raises
\* the expired error and the QR step of the provisioning API reports expiry
\* (410) instead of answering that it is still waiting.
C33_ExpiredQrReported ==
    \A r \in StepRequests :
        (stPc[r] = "done" /\ stLoc[r].raised = "qr_expired") =>
            /\ stReply[r].status = 410
            /\ stReply[r].type # "waiting"

\* C37: an auth session is completed at most once: login_bot / login_user is
\* called at most once for the session, and no request fails with the
\* KeyError of a session the other request removed.
C37_SessionCompletedOnce ==
    /\ stLoginCalls <= 1
    /\ \A r \in StepRequests : stLoc[r].raised # "KeyError"


(***************************************************************************)
(* SpecBody: how _handle_incoming_event turns the message of an            *)
(* INCOMING_MESSAGE frame into the MaxEvent it dispatches.                 *)
(***************************************************************************)
MaxBodyFrames == 2

BodyTexts == {"hi", "yo"}
\* The message of a frame: "body" holds a dict {text: ...} or a bare string,
\* or there is no "body" but a "text" key, or neither.
BodyForms == {"dict", "string", "text_key", "none"}
SenderForms == {"int", "dict", "none"}
NoText == "None"

\* user_client.py:617: body=raw_msg.get("body", raw_msg.get("text")): the
\* Python type of the value handed to MaxMessage.
BodyArg(form) ==
    CASE form = "dict" -> "dict"
      [] form \in {"string", "text_key"} -> "str"
      [] OTHER -> "NoneType"

\* types.py:112-119: body is declared Optional[dict[str, Any]] on a pydantic
\* model without a validator: a dict and None pass, a non-empty str raises
\* ValidationError.
MaxMessage_validates(type) == type \in {"dict", "NoneType"}

\* types.py:125-129: the text property: body.get("text") of a body dict,
\* None without a body.
MaxMessage_text(type, text) == IF type = "dict" THEN text ELSE NoText

\* Max sends an INCOMING_MESSAGE frame.
BodyServerSends(form, text, sender) ==
    /\ Len(bdIn) + Len(bdHandled) < MaxBodyFrames
    /\ bdIn' = Append(bdIn, [body |-> form, text |-> text, sender |-> sender])
    /\ UNCHANGED bdHandled
    /\ UNCHANGED notBody

\* user_client.py:598-627 with 539-543: the message is built and the event
\* dispatched; an exception of the construction is logged by
\* _handle_ws_message and nothing is dispatched.
HandleIncomingEvent ==
    /\ bdIn # <<>>
    /\ LET f == Head(bdIn)
           type == BodyArg(f.body) IN
        bdHandled' = Append(bdHandled,
            [frame |-> f,
             dispatched |-> MaxMessage_validates(type),
             text |-> IF MaxMessage_validates(type)
                      THEN MaxMessage_text(type, f.text) ELSE NoText])
    /\ bdIn' = Tail(bdIn)
    /\ UNCHANGED notBody

NextBody ==
    \/ \E form \in BodyForms, text \in BodyTexts, sender \in SenderForms :
          BodyServerSends(form, text, sender)
    \/ HandleIncomingEvent

SpecBody == Init /\ [][NextBody]_vars

\* C34: an incoming message whose body is a bare string and one whose body
\* is {text: ...} both produce a dispatched MaxEvent whose message text is
\* that text.
C34_StringAndDictBodySameText ==
    \A i \in DOMAIN bdHandled :
        bdHandled[i].frame.body \in {"dict", "string"} =>
            /\ bdHandled[i].dispatched
            /\ bdHandled[i].text = bdHandled[i].frame.text


(***************************************************************************)
(* SpecPup: one Puppet: its cache entry, its row, and update_info calls    *)
(* for it, across restarts of the bridge. None is "" for the strings.      *)
(***************************************************************************)
MaxPupCalls == 3
MaxPupRestarts == 1

PupNames == {"", "Ann"}
PupUsernames == {"", "ann"}
PupAvatars == {"", "mxc"}
AvatarOutcomes == {"ok", "not_200", "raises"}

\* puppet.py:76-98: get_by_max_user_id: the cached object, else one built
\* from the row (name, avatar_mxc, the flags; username is not passed on),
\* else a new one.
get_by_max_user_id(cache, row) ==
    IF cache.exists THEN cache
    ELSE IF row.exists THEN [row EXCEPT !.username = ""]
    ELSE [NoPuppet EXCEPT !.exists = TRUE]

\* puppet.py:118-154: update_info: the puppet after the call, the homeserver
\* calls it made, and whether it saved.
update_info(p, info, nameOk, avatar) ==
    LET nameChanged == info.name # "" /\ info.name # p.name
        userChanged == info.username # "" /\ info.username # p.username
        changed1 == nameChanged \/ userChanged
        p1 == [p EXCEPT !.name = IF nameChanged THEN info.name ELSE @,
                        !.username = IF userChanged THEN info.username ELSE @]
        setName == changed1 \/ ~p.name_set
        p2 == IF setName /\ nameOk THEN [p1 EXCEPT !.name_set = TRUE] ELSE p1
        changed2 == changed1 \/ (setName /\ nameOk /\ ~p.name_set)
        fetch == info.avatar_url # "" /\ ~p.avatar_set
        p3 == IF fetch /\ avatar = "ok" THEN [p2 EXCEPT !.avatar_set = TRUE] ELSE p2
        changed3 == changed2 \/ (fetch /\ avatar = "ok") IN
    [puppet |-> p3,
     hs_calls |-> (IF setName THEN {"set_displayname"} ELSE {})
                  \cup (IF fetch /\ avatar = "ok" THEN {"upload_media", "set_avatar_url"} ELSE {}),
     fetched |-> fetch,
     saved |-> changed3,
     success |-> (setName => nameOk) /\ (fetch => avatar = "ok")]

\* portal.py:150-154 / user.py:421-423: a sighting of the user: the puppet is
\* looked up and update_info called; save writes the row (puppet.py:156-166).
UpdateInfo(info, nameOk, avatar) ==
    /\ ppCalls < MaxPupCalls
    /\ ppCalls' = ppCalls + 1
    /\ LET p == get_by_max_user_id(ppCache, ppDb)
           r == update_info(p, info, nameOk, avatar) IN
        /\ ppCache' = r.puppet
        /\ ppDb' = IF r.saved THEN r.puppet ELSE ppDb
        /\ ppCall' = [repeat |-> ppPrev.success /\ ppPrev.info = info,
                      hs_calls |-> r.hs_calls, saved |-> r.saved]
        /\ ppPrev' = [info |-> info, success |-> r.success]
    /\ UNCHANGED ppRestarts
    /\ UNCHANGED notPup

\* The bridge is restarted: the class-level cache is empty again.
PupRestart ==
    /\ ppRestarts < MaxPupRestarts
    /\ ppRestarts' = ppRestarts + 1
    /\ ppCache' = NoPuppet
    /\ UNCHANGED <<ppDb, ppPrev, ppCall, ppCalls>>
    /\ UNCHANGED notPup

NextPup ==
    \/ \E name \in PupNames, username \in PupUsernames, url \in PupAvatars,
          nameOk \in BOOLEAN, avatar \in AvatarOutcomes :
          UpdateInfo([name |-> name, username |-> username, avatar_url |-> url],
                     nameOk, avatar)
    \/ PupRestart

SpecPup == Init /\ [][NextPup]_vars

\* C35: an update_info with the same MaxUser as the one before it, which
\* succeeded in full, makes no homeserver call and does not save.
C35_SecondUpdateIsNoOp ==
    ppCall.repeat => (ppCall.hs_calls = {} /\ ~ppCall.saved)


(***************************************************************************)
(* SpecRoom: Portal.create_matrix_room of one Portal object, called by     *)
(* concurrent triggers, where the homeserver call and the database write   *)
(* may raise (portal.py:109-132, 269-282).                                 *)
(***************************************************************************)
\* portal.py:123 and 130: an awaited call returns or raises.
CallOutcomes == {"ok", "raises"}

\* portal.py:138-146: handle_max_message calls create_matrix_room for a
\* portal without a room.
RoomTrigger(t) ==
    /\ rmPc[t] = "idle"
    /\ rmStarted < MaxRoomTriggers
    /\ rmStarted' = rmStarted + 1
    /\ rmPc' = [rmPc EXCEPT ![t] = "cmr"]
    /\ UNCHANGED <<rmPortal, rmByMxid, rmDb, rmRooms>>
    /\ UNCHANGED notRoom

\* portal.py:111-117: return the room if there is one; take
\* _create_room_lock when it is free, or wait for it.
RoomEnter(t) ==
    /\ rmPc[t] = "cmr"
    /\ IF rmPortal.mxid # 0
       THEN /\ rmPc' = [rmPc EXCEPT ![t] = "idle"]
            /\ UNCHANGED rmPortal
       ELSE IF rmPortal.lock = ""
       THEN /\ rmPortal' = [rmPortal EXCEPT !.lock = t]
            /\ rmPc' = [rmPc EXCEPT ![t] = "cmr_create"]
       ELSE /\ rmPc' = [rmPc EXCEPT ![t] = "cmr_wait"]
            /\ UNCHANGED rmPortal
    /\ UNCHANGED <<rmByMxid, rmDb, rmRooms, rmStarted>>
    /\ UNCHANGED notRoom

\* portal.py:114-117: the lock was released; take it and check again.
RoomWake(t) ==
    /\ rmPc[t] = "cmr_wait"
    /\ rmPortal.lock = ""
    /\ IF rmPortal.mxid = 0
       THEN /\ rmPortal' = [rmPortal EXCEPT !.lock = t]
            /\ rmPc' = [rmPc EXCEPT ![t] = "cmr_create"]
       ELSE /\ rmPc' = [rmPc EXCEPT ![t] = "idle"]
            /\ UNCHANGED rmPortal
    /\ UNCHANGED <<rmByMxid, rmDb, rmRooms, rmStarted>>
    /\ UNCHANGED notRoom

\* portal.py:123-130: create_room returned: the room id is recorded on the
\* Portal and in by_mxid, then _save is awaited; create_room raised: the
\* exception leaves the async with block, which releases the lock.
RoomCreate(t, outcome) ==
    /\ rmPc[t] = "cmr_create"
    /\ IF outcome = "ok"
       THEN /\ rmRooms < MaxHsRooms
            /\ rmRooms' = rmRooms + 1
            /\ rmPortal' = [rmPortal EXCEPT !.mxid = rmRooms + 1]
            /\ rmByMxid' = rmByMxid \cup {rmRooms + 1}
            /\ rmPc' = [rmPc EXCEPT ![t] = "cmr_save"]
       ELSE /\ rmPortal' = [rmPortal EXCEPT !.lock = ""]
            /\ rmPc' = [rmPc EXCEPT ![t] = "idle"]
            /\ UNCHANGED <<rmRooms, rmByMxid>>
    /\ UNCHANGED <<rmDb, rmStarted>>
    /\ UNCHANGED notRoom

\* portal.py:130-132 and 269-282: _save wrote the row, or raised; either
\* way the async with block releases the lock, and nothing in
\* create_matrix_room undoes lines 128-129.
RoomSave(t, outcome) ==
    /\ rmPc[t] = "cmr_save"
    /\ rmDb' = IF outcome = "ok" THEN rmPortal.mxid ELSE rmDb
    /\ rmPortal' = [rmPortal EXCEPT !.lock = ""]
    /\ rmPc' = [rmPc EXCEPT ![t] = "idle"]
    /\ UNCHANGED <<rmByMxid, rmRooms, rmStarted>>
    /\ UNCHANGED notRoom

NextRoom ==
    \/ \E t \in RoomTriggers : RoomTrigger(t)
    \/ \E t \in RoomTriggers : RoomEnter(t)
    \/ \E t \in RoomTriggers : RoomWake(t)
    \/ \E t \in RoomTriggers, o \in CallOutcomes : RoomCreate(t, o)
    \/ \E t \in RoomTriggers, o \in CallOutcomes : RoomSave(t, o)

SpecRoom == Init /\ [][NextRoom]_vars

\* C38: whenever no create_matrix_room call holds the lock, the Portal's
\* in-memory room id is non-null only if that room id is persisted, and
\* by_mxid registers no room for a portal without a persisted room: a
\* failed create_room or a failed _save leaves the portal shadow.
C38_RoomIdOnlyIfPersisted ==
    rmPortal.lock = "" =>
        /\ rmPortal.mxid # 0 => rmDb = rmPortal.mxid
        /\ rmByMxid # {} => rmDb \in rmByMxid


(***************************************************************************)
(* SpecStop: one client with its background tasks, from connect to the     *)
(* return of User.disconnect, in bot mode (the long-polling task) and in   *)
(* user mode (the listener and the keepalive task).  A task is suspended   *)
(* at an await ("wait", "handler", "sleep", "drain"), or it is "ready": the*)
(* awaited result has arrived and the event loop has scheduled its next    *)
(* step.  Task.cancel() makes the next step of the task raise              *)
(* CancelledError at the await it is suspended in.                         *)
(***************************************************************************)
StopModes == {"bot", "user"}
\* What an await of the loop task can deliver: updates or an event frame,
\* a frame that is no event, a failure, the end of the WebSocket.
LoopResults == {"events", "other", "error", "closed"}

Task_cancel_Not(task) == task

\* bot_client.py:109-110, user_client.py:331-334: cancel() of a task that
\* is not done requests the cancellation.
Task_cancel(task) ==
    IF task.pc \in {"none", "done"} THEN task
    ELSE [task EXCEPT !.must_cancel = TRUE]

\* bot_client.py:127-131, user_client.py:494-496: the loop condition, and
\* the await the next iteration suspends in.
LoopTop(mode, run, ws) ==
    IF mode = "bot"
    THEN IF run THEN "wait" ELSE "done"
    ELSE IF run /\ ws \in {"open", "closing"} THEN "wait" ELSE "done"

\* bot_client.py:131: an iteration of _poll_loop sends GET /updates.
PollsSent(mode, nextPc) == IF mode = "bot" /\ nextPc = "wait" THEN 1 ELSE 0

\* user.py:104-116, bot_client.py:92-104, user_client.py:257-283: connect
\* sets _running and creates the tasks.
DcConnect(mode) ==
    /\ dcMode = "none"
    /\ dcMode' = mode
    /\ dcRunning' = TRUE
    /\ dcWs' = IF mode = "user" THEN "open" ELSE "none"
    /\ dcTasks' = [t \in {"loop", "keepalive"} |->
                     IF t = "loop" \/ mode = "user"
                     THEN [NoStopTask EXCEPT !.pc = "new"] ELSE NoStopTask]
    /\ UNCHANGED <<dcDisc, dcDispatched, dcSent>>
    /\ UNCHANGED notStop

\* bot_client.py:125-131, user_client.py:494-496 and 634-636: the first
\* step of a task runs to its first await.
DcTaskStarts(t) ==
    /\ dcTasks[t].pc = "new"
    /\ ~dcTasks[t].must_cancel
    /\ LET nextPc == IF t = "keepalive"
                     THEN (IF dcRunning THEN "sleep" ELSE "done")
                     ELSE LoopTop(dcMode, dcRunning, dcWs) IN
        /\ dcSent + PollsSent(dcMode, nextPc) <= MaxStopSent
        /\ dcSent' = IF t = "loop" THEN dcSent + PollsSent(dcMode, nextPc)
                     ELSE dcSent
        /\ dcTasks' = [dcTasks EXCEPT ![t].pc = nextPc]
    /\ UNCHANGED <<dcMode, dcRunning, dcWs, dcDisc, dcDispatched>>
    /\ UNCHANGED notStop

\* bot_client.py:131, user_client.py:496: the response of GET /updates or a
\* WebSocket message arrives; the task is scheduled to go on.
DcResultArrives(r, n) ==
    /\ dcTasks["loop"].pc = "wait"
    /\ dcMode = "bot" => r # "closed"
    /\ dcMode = "user" => dcWs = "open" /\ n = 1
    /\ dcTasks' = [dcTasks EXCEPT !["loop"].pc = "ready",
                                  !["loop"].got = r,
                                  !["loop"].queue = IF r = "events" THEN n ELSE 0]
    /\ dcWs' = IF r = "closed" THEN "closed" ELSE dcWs
    /\ UNCHANGED <<dcMode, dcRunning, dcDisc, dcDispatched, dcSent>>
    /\ UNCHANGED notStop

\* bot_client.py:131-144 and base_client.py:96-102, user_client.py:496-509
\* and 598-627: the loop task goes on with what it got: the first update or
\* the event is dispatched (the handler is awaited), a failure sleeps, the
\* end of the WebSocket breaks, anything else starts the next iteration.
DcLoopResumes ==
    /\ dcTasks["loop"].pc = "ready"
    /\ ~dcTasks["loop"].must_cancel
    /\ LET task == dcTasks["loop"]
           top == LoopTop(dcMode, dcRunning, dcWs)
           nextPc == CASE task.got = "events" -> "handler"
                       [] task.got = "error" -> "sleep"
                       [] task.got = "closed" -> "done"
                       [] OTHER -> top IN
        /\ task.got = "events" => dcDispatched < MaxStopEvents
        /\ dcSent + PollsSent(dcMode, nextPc) <= MaxStopSent
        /\ dcDispatched' = IF task.got = "events" THEN dcDispatched + 1
                           ELSE dcDispatched
        /\ dcSent' = dcSent + PollsSent(dcMode, nextPc)
        /\ dcTasks' = [dcTasks EXCEPT
                         !["loop"].pc = nextPc, !["loop"].got = "",
                         !["loop"].queue = IF task.got = "events"
                                           THEN task.queue - 1 ELSE 0]
    /\ UNCHANGED <<dcMode, dcRunning, dcWs, dcDisc>>
    /\ UNCHANGED notStop

\* bot_client.py:136-137 and base_client.py:99-102, user_client.py:498-499:
\* the handler returned or raised an Exception, which is logged; the next
\* update of the batch is dispatched, or the next iteration starts.
DcHandlerReturns ==
    /\ dcTasks["loop"].pc = "handler"
    /\ ~dcTasks["loop"].must_cancel
    /\ LET task == dcTasks["loop"]
           more == task.queue > 0
           nextPc == IF more THEN "handler"
                     ELSE LoopTop(dcMode, dcRunning, dcWs) IN
        /\ more => dcDispatched < MaxStopEvents
        /\ dcSent + PollsSent(dcMode, nextPc) <= MaxStopSent
        /\ dcDispatched' = IF more THEN dcDispatched + 1 ELSE dcDispatched
        /\ dcSent' = dcSent + PollsSent(dcMode, nextPc)
        /\ dcTasks' = [dcTasks EXCEPT
                         !["loop"].pc = nextPc,
                         !["loop"].queue = IF more THEN task.queue - 1 ELSE 0]
    /\ UNCHANGED <<dcMode, dcRunning, dcWs, dcDisc>>
    /\ UNCHANGED notStop

\* bot_client.py:140-144, user_client.py:507-509: the sleep after a failure
\* is over; the next iteration starts.
DcSleepDone ==
    /\ dcTasks["loop"].pc = "sleep"
    /\ ~dcTasks["loop"].must_cancel
    /\ LET nextPc == LoopTop(dcMode, dcRunning, dcWs) IN
        /\ dcSent + PollsSent(dcMode, nextPc) <= MaxStopSent
        /\ dcSent' = dcSent + PollsSent(dcMode, nextPc)
        /\ dcTasks' = [dcTasks EXCEPT !["loop"].pc = nextPc]
    /\ UNCHANGED <<dcMode, dcRunning, dcWs, dcDisc, dcDispatched>>
    /\ UNCHANGED notStop

\* user_client.py:634-641 and 200-207: the 30 s are over; with an open
\* WebSocket the heartbeat frame is written and send_json may wait for the
\* drain, otherwise the loop condition is evaluated again.
DcKeepaliveWakes ==
    /\ dcTasks["keepalive"].pc = "sleep"
    /\ ~dcTasks["keepalive"].must_cancel
    /\ IF dcWs \in {"open", "closing"}
       THEN /\ dcSent < MaxStopSent
            /\ dcSent' = dcSent + 1
            /\ dcTasks' = [dcTasks EXCEPT !["keepalive"].pc = "drain"]
       ELSE /\ dcTasks' = [dcTasks EXCEPT !["keepalive"].pc =
                              IF dcRunning THEN "sleep" ELSE "done"]
            /\ UNCHANGED dcSent
    /\ UNCHANGED <<dcMode, dcRunning, dcWs, dcDisc, dcDispatched>>
    /\ UNCHANGED notStop

\* user_client.py:634-641: the heartbeat is out (or send_json raised, which
\* is logged at 644-645); back to the loop condition.
DcKeepaliveSent ==
    /\ dcTasks["keepalive"].pc = "drain"
    /\ ~dcTasks["keepalive"].must_cancel
    /\ dcTasks' = [dcTasks EXCEPT !["keepalive"].pc =
                      IF dcRunning THEN "sleep" ELSE "done"]
    /\ UNCHANGED <<dcMode, dcRunning, dcWs, dcDisc, dcDispatched, dcSent>>
    /\ UNCHANGED notStop

\* bot_client.py:138-139, user_client.py:505-506 and 642-643: the next step
\* of a cancelled task raises CancelledError at its await: it passes the
\* 'except Exception' of the dispatcher and of the handlers and ends the
\* loop (or, raised by a sleep inside an except block, the task).
DcCancelled(t) ==
    /\ dcTasks[t].must_cancel
    /\ dcTasks' = [dcTasks EXCEPT ![t] = [NoStopTask EXCEPT !.pc = "done"]]
    /\ UNCHANGED <<dcMode, dcRunning, dcWs, dcDisc, dcDispatched, dcSent>>
    /\ UNCHANGED notStop

\* user_client.py:200-207: another coroutine of the bridge sends a frame
\* through the client; _send_raw refuses when the WebSocket is closed.
DcCallerSends ==
    /\ dcMode = "user"
    /\ dcWs \in {"open", "closing"}
    /\ dcSent < MaxStopSent
    /\ dcSent' = dcSent + 1
    /\ UNCHANGED <<dcMode, dcRunning, dcWs, dcTasks, dcDisc, dcDispatched>>
    /\ UNCHANGED notStop

\* user.py:405-408, bot_client.py:106-111, user_client.py:324-336: the
\* synchronous head of disconnect: _running is cleared and the tasks are
\* cancelled; then the polling task, or the closing of the WebSocket if it
\* is not closed, is awaited.
DcDisconnect ==
    /\ dcDisc = "idle"
    /\ dcMode # "none"
    /\ dcRunning' = FALSE
    /\ dcTasks' = [t \in {"loop", "keepalive"} |->
                     IF t = "loop" \/ dcMode = "user"
                     THEN Task_cancel(dcTasks[t]) ELSE dcTasks[t]]
    /\ IF dcMode = "bot"
       THEN /\ dcDisc' = IF dcTasks["loop"].pc = "done" THEN "close_session"
                         ELSE "await_task"
            /\ UNCHANGED dcWs
       ELSE IF dcWs = "open"
       THEN /\ dcWs' = "closing"
            /\ dcDisc' = "close_ws"
       ELSE /\ dcDisc' = "close_session"
            /\ UNCHANGED dcWs
    /\ UNCHANGED <<dcMode, dcDispatched, dcSent>>
    /\ UNCHANGED notStop

\* bot_client.py:111-114: the cancelled polling task is done.
DcTaskAwaited ==
    /\ dcDisc = "await_task"
    /\ dcTasks["loop"].pc = "done"
    /\ dcDisc' = "close_session"
    /\ UNCHANGED <<dcMode, dcRunning, dcWs, dcTasks, dcDispatched, dcSent>>
    /\ UNCHANGED notStop

\* user_client.py:335-336: ws.close() returns once no receive() is pending;
\* the WebSocket is closed.
DcWsClosed ==
    /\ dcDisc = "close_ws"
    /\ dcTasks["loop"].pc # "wait"
    /\ dcWs' = "closed"
    /\ dcDisc' = "close_session"
    /\ UNCHANGED <<dcMode, dcRunning, dcTasks, dcDispatched, dcSent>>
    /\ UNCHANGED notStop

\* bot_client.py:115-116, user_client.py:337-338, user.py:412: the HTTP
\* session is closed, disconnect returns and User.disconnect drops the
\* client.
DcReturns ==
    /\ dcDisc = "close_session"
    /\ dcDisc' = "returned"
    /\ UNCHANGED <<dcMode, dcRunning, dcWs, dcTasks, dcDispatched, dcSent>>
    /\ UNCHANGED notStop

NextStop ==
    \/ \E mode \in StopModes : DcConnect(mode)
    \/ \E t \in {"loop", "keepalive"} : DcTaskStarts(t)
    \/ \E r \in LoopResults, n \in 1..MaxBatch : DcResultArrives(r, n)
    \/ DcLoopResumes
    \/ DcHandlerReturns
    \/ DcSleepDone
    \/ DcKeepaliveWakes
    \/ DcKeepaliveSent
    \/ \E t \in {"loop", "keepalive"} : DcCancelled(t)
    \/ DcCallerSends
    \/ DcDisconnect
    \/ DcTaskAwaited
    \/ DcWsClosed
    \/ DcReturns

SpecStop == Init /\ [][NextStop]_vars

C39_BotStopped ==
    /\ dcDisc = "returned"
    /\ dcMode = "bot"
    /\ dcTasks["loop"].pc = "done"
    /\ dcDispatched > 0
    /\ dcSent > 0

====
